---- MODULE Spec2Model ----
(***************************************************************************)
(* rawr: cache repository, single-file scan and the streaming scan and     *)
(* organize pipelines (crates/cache, crates/library, crates/storage).      *)
(***************************************************************************)
EXTENDS Integers, Naturals, Sequences, FiniteSets, TLC

VARIABLES
    backend,             \* primary storage backend: path -> stored bytes
    files,               \* cache table `files`, keyed by (target, path); one target
    versions,            \* cache table `versions`, keyed by content_hash
    dry_run,             \* Repository.dry_run
    trash,               \* names written to the trash backend
    mode,                \* which pipeline this run drives
    ctx,                 \* organize Context: target compression, trash configured
    call,                \* the organize_file call in progress, as its caller sees it
    pc,                  \* position of the stream generator
    listing,             \* items the backend list stream has still to yield
    list_errors,         \* in-stream listing errors yielded so far
    discovery_complete,  \* scan_inner: discovery_complete
    discovered,          \* scan_inner: discovered
    not_processing_yet,  \* scan_inner: not_processing_yet (organize_inner: futures)
    processing,          \* FuturesUnordered of per-file futures
    tasks,               \* state of every per-file future
    events,              \* items the stream has yielded, oldest first
    api                  \* the last call another client made on the repository

vars == <<backend, files, versions, dry_run, trash, mode, ctx, call, pc, listing, list_errors,
          discovery_complete, discovered, not_processing_yet, processing, tasks, events, api>>

cacheVars == <<files, versions, dry_run>>
streamVars == <<pc, listing, list_errors, discovery_complete, discovered,
                not_processing_yet, processing, events>>

----------------------------------------------------------------------------
(* Bounds of the model.                                                    *)

\* number of file stems; a path is a stem plus a compression extension
NumNames == 8
\* files of the library a streaming scan runs over
NumStored == 4
\* scan_inner / lib.rs set 100; the model runs the pipelines with a small limit
MAX_PROCESS_CONCURRENCY == 2
\* listing errors one list stream may yield
MaxListErrors == 1

----------------------------------------------------------------------------
(* Values.                                                                 *)

Names == 1..NumNames
Exts == {"bz2", "gz"}
Paths == [name : Names, ext : Exts]
NoPath == [name |-> 0, ext |-> "-"]

Formats == {"none", "bz2", "gz"}
\* documents: A and A2 are two downloads of work 1, B is work 2, C to H are
\* works 3 to 8, junk is not a valid document
Docs == {"A", "A2", "B", "C", "D", "E", "F", "G", "H", "junk"}
ValidDocs == Docs \ {"junk"}
\* stored bytes: a document encoded with a format
Bytes == [comp : Formats, doc : Docs]
NoFile == [comp |-> "-", doc |-> "-"]

NoHash == <<"-", "-">>
\* extracted_at and discovered_at are instants counted in half seconds; the
\* clock stands at Epoch wherever the instant of a scan makes no difference
Epoch == 0
NoVersion == [hash |-> NoHash, work_id |-> 0, extracted_at |-> Epoch]
NoRow == [size |-> 0, compression |-> "-", file_hash |-> NoHash, content_hash |-> NoHash,
          discovered_at |-> Epoch]

DocLen(d) == CASE d = "A2" -> 4 [] d = "junk" -> 1 [] OTHER -> 3
WorkId(d) == CASE d = "A" -> 1 [] d = "A2" -> 1 [] d = "B" -> 2 [] d = "C" -> 3
               [] d = "D" -> 4 [] d = "E" -> 5 [] d = "F" -> 6 [] d = "G" -> 7
               [] d = "H" -> 8 [] OTHER -> 0

\* data.len() of stored bytes
Size(b) == DocLen(b.doc) + (CASE b.comp = "none" -> 2 [] b.comp = "gz" -> 1 [] OTHER -> 0)

\* blake3::hash(bytes).to_string(): collision-free digest of the bytes
Blake3(b) == <<b.comp, b.doc>>

\* Compression::from_path
CompressionFromPath(p) == CASE p.ext = "bz2" -> "bz2" [] p.ext = "gz" -> "gz" [] OTHER -> "none"

\* Compression::decompress: None copies the input, a codec fails on bytes of
\* another format
Decompress(c, b) ==
    IF c = "none" THEN [ok |-> TRUE, data |-> b]
    ELSE IF b.comp = c THEN [ok |-> TRUE, data |-> [comp |-> "none", doc |-> b.doc]]
    ELSE [ok |-> FALSE, data |-> NoFile]

\* rawr_extract::extract: a Version (content hash of the decompressed bytes)
\* or an error when the bytes are not a valid document
Extract(content) ==
    IF content.comp = "none" /\ content.doc \in ValidDocs
    THEN [ok |-> TRUE, version |-> [hash |-> Blake3(content), work_id |-> WorkId(content.doc),
                                    extracted_at |-> Epoch]]
    ELSE [ok |-> FALSE, version |-> NoVersion]

----------------------------------------------------------------------------
(* Storage backend (MockBackend / LocalBackend).                           *)

BackendExists(p) == backend[p] # NoFile

\* FileInfo<Discovered> of a stored file
FileInfoOf(p) == [path |-> p, size |-> Size(backend[p]), compression |-> CompressionFromPath(p)]

RECURSIVE SortedByName(_)
SortedByName(S) ==
    IF S = {} THEN <<>>
    ELSE LET p == CHOOSE x \in S : \A y \in S :
                      x.name < y.name \/ (x.name = y.name /\ (x.ext = "bz2" \/ y.ext = "gz"))
         IN <<p>> \o SortedByName(S \ {p})

\* list_stream(None): one FileInfo per stored file
ListStream == LET seq == SortedByName({p \in Paths : BackendExists(p)})
              IN [i \in 1..Len(seq) |-> FileInfoOf(seq[i])]

----------------------------------------------------------------------------
(* Cache repository.                                                       *)

\* UtcDateTime::unix_timestamp and UtcDateTime::from_unix_timestamp: a column
\* holds whole seconds
UnixTimestamp(t) == t \div 2
FromUnixTimestamp(secs) == 2 * secs

\* FileRow::try_from(&File) and File::try_from(FileRow)
FileRow(file) == [file EXCEPT !.discovered_at = UnixTimestamp(@)]
FileOfRow(row) == [row EXCEPT !.discovered_at = FromUnixTimestamp(@)]
\* VersionRow::try_from(&Version) and Version::try_from(VersionRow)
VersionRow(version) == [version EXCEPT !.extracted_at = UnixTimestamp(@)]
VersionOfRow(row) == [row EXCEPT !.extracted_at = FromUnixTimestamp(@)]

HasVersion(vs, h) == \E v \in vs : v.hash = h
VersionOf(vs, h) == CHOOSE v \in vs : v.hash = h

\* variant: the dry run writes as well
UpsertIgnoresDryRun(fs, vs, p, row, version) ==
    IF row.content_hash # version.hash
    THEN [ok |-> FALSE, files |-> fs, versions |-> vs]
    ELSE [ok |-> TRUE,
          files |-> [fs EXCEPT ![p] = FileRow(row)],
          versions |-> IF \E v \in vs : v.hash = version.hash THEN vs
                       ELSE vs \cup {VersionRow(version)}]

\* variant: the constraint on the two hashes is not checked
UpsertUnchecked(fs, vs, p, row, version) ==
    IF dry_run
    THEN [ok |-> TRUE, files |-> fs, versions |-> vs]
    ELSE [ok |-> TRUE,
          files |-> [fs EXCEPT ![p] = FileRow(row)],
          versions |-> IF \E v \in vs : v.hash = version.hash THEN vs
                       ELSE vs \cup {VersionRow(version)}]

\* variant: only the file row is written
UpsertFileRowOnly(fs, vs, p, row, version) ==
    IF row.content_hash # version.hash
    THEN [ok |-> FALSE, files |-> fs, versions |-> vs]
    ELSE IF dry_run
    THEN [ok |-> TRUE, files |-> fs, versions |-> vs]
    ELSE [ok |-> TRUE, files |-> [fs EXCEPT ![p] = FileRow(row)], versions |-> vs]

\* variant: a version whose hash is already stored is written over it
UpsertReplacesVersion(fs, vs, p, row, version) ==
    IF row.content_hash # version.hash
    THEN [ok |-> FALSE, files |-> fs, versions |-> vs]
    ELSE IF dry_run
    THEN [ok |-> TRUE, files |-> fs, versions |-> vs]
    ELSE [ok |-> TRUE,
          files |-> [fs EXCEPT ![p] = FileRow(row)],
          versions |-> {v \in vs : v.hash # version.hash} \cup {VersionRow(version)}]

\* Repository::upsert: the constraint, the dry run, then one transaction that
\* inserts the version unless its hash is stored and writes the file row at
\* (target, path)
Upsert(fs, vs, p, row, version) ==
    IF row.content_hash # version.hash
    THEN [ok |-> FALSE, files |-> fs, versions |-> vs]
    ELSE IF dry_run
    THEN [ok |-> TRUE, files |-> fs, versions |-> vs]
    ELSE [ok |-> TRUE,
          files |-> [fs EXCEPT ![p] = FileRow(row)],
          versions |-> IF HasVersion(vs, version.hash) THEN vs
                       ELSE vs \cup {VersionRow(version)}]

\* variant: the rows are handed back as they are stored
GetByTargetPathRaw(fs, vs, p) ==
    IF fs[p] # NoRow /\ HasVersion(vs, fs[p].content_hash)
    THEN [found |-> TRUE, file |-> fs[p], version |-> VersionOf(vs, fs[p].content_hash)]
    ELSE [found |-> FALSE, file |-> NoRow, version |-> NoVersion]

\* Repository::get_by_target_path: the file row joined with its version
GetByTargetPath(fs, vs, p) ==
    IF fs[p] # NoRow /\ HasVersion(vs, fs[p].content_hash)
    THEN [found |-> TRUE, file |-> FileOfRow(fs[p]),
          version |-> VersionOfRow(VersionOf(vs, fs[p].content_hash))]
    ELSE [found |-> FALSE, file |-> NoRow, version |-> NoVersion]

\* Repository::get_by_file_hash: every joined row with that file hash
GetByFileHash(fs, vs, fh) ==
    {[path |-> q, file |-> FileOfRow(fs[q]),
      version |-> VersionOfRow(VersionOf(vs, fs[q].content_hash))] :
        q \in {r \in Paths : fs[r] # NoRow /\ fs[r].file_hash = fh
                              /\ HasVersion(vs, fs[r].content_hash)}}

\* Repository::exists: the set of results the probe can return (the row picked
\* among several with the same file hash is the database's choice)
Exists(fs, vs, p, fh) ==
    LET here == GetByTargetPath(fs, vs, p) IN
    IF here.found
    THEN {[kind |-> IF here.file.file_hash = fh THEN "ExactMatch" ELSE "HashMismatch",
           file |-> here.file, version |-> here.version]}
    ELSE IF GetByFileHash(fs, vs, fh) # {}
    THEN {[kind |-> "LocatedElsewhere", file |-> r.file, version |-> r.version] :
             r \in GetByFileHash(fs, vs, fh)}
    ELSE {[kind |-> "NotFound", file |-> NoRow, version |-> NoVersion]}

\* Repository::delete_by_target_path: removes the file row only
DeleteByTargetPath(fs, p) == IF dry_run THEN fs ELSE [fs EXCEPT ![p] = NoRow]

\* Repository::update_target_path: UPDATE files SET path = new WHERE path = old;
\* the primary key (target, path) rejects a new path that already has a row
UpdateTargetPath(fs, old, new) ==
    IF dry_run THEN [ok |-> TRUE, affected |-> TRUE, files |-> fs]
    ELSE IF fs[old] = NoRow THEN [ok |-> TRUE, affected |-> FALSE, files |-> fs]
    ELSE IF old = new THEN [ok |-> TRUE, affected |-> TRUE, files |-> fs]
    ELSE IF fs[new] # NoRow THEN [ok |-> FALSE, affected |-> FALSE, files |-> fs]
    ELSE [ok |-> TRUE, affected |-> TRUE,
          files |-> [fs EXCEPT ![new] = fs[old], ![old] = NoRow]]

\* Repository::delete_by_content_hash: DELETE FROM versions, cascading to the
\* file rows that reference the version
DeleteByContentHash(fs, vs, h) ==
    IF dry_run THEN [files |-> fs, versions |-> vs]
    ELSE [files |-> [p \in Paths |-> IF fs[p].content_hash = h THEN NoRow ELSE fs[p]],
          versions |-> {v \in vs : v.hash # h}]

\* variant: the file rows of the deleted versions are left behind
DeleteByWorkIdKeepsRows(fs, vs, w) ==
    IF dry_run THEN [files |-> fs, versions |-> vs]
    ELSE [files |-> fs, versions |-> {v \in vs : v.work_id # w}]

\* Repository::delete_by_work_id: DELETE FROM versions WHERE work_id = w,
\* cascading to the file rows that reference a deleted version
DeleteByWorkId(fs, vs, w) ==
    IF dry_run THEN [files |-> fs, versions |-> vs]
    ELSE [files |-> [p \in Paths |->
                        IF \E v \in vs : v.work_id = w /\ v.hash = fs[p].content_hash
                        THEN NoRow ELSE fs[p]],
          versions |-> {v \in vs : v.work_id # w}]

\* variant: a version still referenced by a file row is swept too
DeleteOrphanedVersionsSweepsAll(fs, vs) ==
    IF dry_run THEN [count |-> Cardinality(vs), versions |-> vs]
    ELSE [count |-> Cardinality(vs), versions |-> {}]

\* Repository::delete_orphaned_versions: versions no file row references
Orphans(fs, vs) == {v \in vs : \A p \in Paths : fs[p].content_hash # v.hash}
DeleteOrphanedVersions(fs, vs) ==
    IF dry_run THEN [count |-> Cardinality(Orphans(fs, vs)), versions |-> vs]
    ELSE [count |-> Cardinality(Orphans(fs, vs)), versions |-> vs \ Orphans(fs, vs)]

\* a call on the repository and what it returned
NoCall == [n |-> 0, op |-> "-", path |-> NoPath, row |-> NoRow, version |-> NoVersion,
           ok |-> TRUE, count |-> 0]

----------------------------------------------------------------------------
(* Per-file futures.                                                       *)

TaskIds == 1..Cardinality(Paths)

\* the locals of a future, its result (row, ver, effort or err), and what it has
\* done so far: via is the exists() outcome it acted on, old the cache row it
\* found at its path when called, again whether it repeats the previous call
IdleTask == [op |-> "-", path |-> NoPath, size |-> 0, compression |-> "-",
             pc |-> "idle", bytes |-> NoFile,
             row |-> NoRow, ver |-> NoVersion, effort |-> "-", err |-> "-",
             via |-> "-", old |-> NoRow, again |-> FALSE, stack |-> <<>>, to |-> NoPath,
             reads |-> 0, upserts |-> 0, deletes |-> 0, extracts |-> 0]

\* scan_file_inner(backend, cache, file): the future before its first poll,
\* holding file.strip_hashes()
NewScanTask(file) == [IdleTask EXCEPT !.op = "scan", !.path = file.path, !.size = file.size,
                                      !.compression = file.compression, !.pc = "lookup"]

\* the future has returned to the stream (or caller) that polls it
TaskDone(t) == tasks[t].pc = "done" /\ tasks[t].stack = <<>>
TaskOk(t) == TaskDone(t) /\ tasks[t].err = "-"

\* variant: the result of extract is used without looking at its error
ExtractedUnvalidated(task, effort) ==
    LET d == Decompress(task.compression, task.bytes) IN
    IF ~d.ok THEN [task EXCEPT !.pc = "done", !.err = "Compression"]
    ELSE LET x == Extract(d.data) IN
         [task EXCEPT !.pc = "upsert", !.effort = effort, !.ver = x.version,
                      !.extracts = task.extracts + 1,
                      !.row = [size |-> task.size, compression |-> task.compression,
                               file_hash |-> Blake3(task.bytes),
                               content_hash |-> x.version.hash,
                               discovered_at |-> Epoch]]

\* file.compression.decompress(&bytes), extract(&content) and
\* file.with_content_hash(&version.hash): synchronous, up to the upsert
Extracted(task, effort) ==
    LET d == Decompress(task.compression, task.bytes) IN
    IF ~d.ok THEN [task EXCEPT !.pc = "done", !.err = "Compression"]
    ELSE LET x == Extract(d.data) IN
         IF ~x.ok THEN [task EXCEPT !.pc = "done", !.err = "Extract",
                                    !.extracts = task.extracts + 1]
         ELSE [task EXCEPT !.pc = "upsert", !.effort = effort, !.ver = x.version,
                           !.extracts = task.extracts + 1,
                           !.row = [size |-> task.size, compression |-> task.compression,
                                    file_hash |-> Blake3(task.bytes),
                                    content_hash |-> x.version.hash,
                                    discovered_at |-> Epoch]]

\* variant: the cached pair is never trusted
ScanLookupAlwaysReads(t) ==
    /\ tasks[t].op = "scan" /\ tasks[t].pc = "lookup"
    /\ LET task == tasks[t]
           existing == GetByTargetPath(files, versions, task.path)
       IN tasks' = [tasks EXCEPT ![t] = [task EXCEPT !.pc = "read", !.old = existing.file]]
    /\ UNCHANGED <<backend, files, versions, dry_run, trash>>

\* cache.get_by_target_path and the size comparison
ScanLookup(t) ==
    /\ tasks[t].op = "scan" /\ tasks[t].pc = "lookup"
    /\ LET task == tasks[t]
           existing == GetByTargetPath(files, versions, task.path)
       IN tasks' = [tasks EXCEPT ![t] =
                       IF existing.found /\ task.size = existing.file.size
                       THEN [task EXCEPT !.pc = "done", !.effort = "Cached",
                                         !.old = existing.file,
                                         !.row = existing.file, !.ver = existing.version]
                       ELSE [task EXCEPT !.pc = "read", !.old = existing.file]]
    /\ UNCHANGED <<backend, files, versions, dry_run, trash>>

\* backend.read and file.with_file_hash
ScanRead(t) ==
    /\ tasks[t].op = "scan" /\ tasks[t].pc = "read"
    /\ LET task == tasks[t] IN
       tasks' = [tasks EXCEPT ![t] =
                    IF BackendExists(task.path)
                    THEN [task EXCEPT !.pc = "exists", !.bytes = backend[task.path],
                                      !.reads = task.reads + 1]
                    ELSE [task EXCEPT !.pc = "done", !.err = "Storage",
                                      !.reads = task.reads + 1]]
    /\ UNCHANGED <<backend, files, versions, dry_run, trash>>

\* cache.exists and the match on its result
ScanExists(t) ==
    /\ tasks[t].op = "scan" /\ tasks[t].pc = "exists"
    /\ LET task == tasks[t] IN
       \E existing \in Exists(files, versions, task.path, Blake3(task.bytes)) :
          tasks' = [tasks EXCEPT ![t] =
             CASE existing.kind \in {"ExactMatch", "HashMismatch"} ->
                     [task EXCEPT !.pc = "delete", !.via = existing.kind]
               [] existing.kind = "LocatedElsewhere" ->
                     [task EXCEPT !.pc = "adopt", !.ver = existing.version,
                                  !.via = existing.kind,
                                  !.row = [size |-> task.size, compression |-> task.compression,
                                           file_hash |-> Blake3(task.bytes),
                                           content_hash |-> existing.file.content_hash,
                                           discovered_at |-> Epoch]]
               [] OTHER -> Extracted([task EXCEPT !.via = existing.kind], "Processed")]
    /\ UNCHANGED <<backend, files, versions, dry_run, trash>>

\* variant: the stale row is left in place
ScanDeleteKeepsRow(t) ==
    /\ tasks[t].op = "scan" /\ tasks[t].pc = "delete"
    /\ LET task == [tasks[t] EXCEPT !.deletes = tasks[t].deletes + 1] IN
       tasks' = [tasks EXCEPT ![t] = Extracted(task, "Recalculated")]
    /\ UNCHANGED <<backend, files, versions, dry_run, trash>>

\* ExactMatch | HashMismatch: cache.delete_by_target_path, then extraction
ScanDelete(t) ==
    /\ tasks[t].op = "scan" /\ tasks[t].pc = "delete"
    /\ files' = DeleteByTargetPath(files, tasks[t].path)
    /\ LET task == [tasks[t] EXCEPT !.deletes = tasks[t].deletes + 1] IN
       tasks' = [tasks EXCEPT ![t] = Extracted(task, "Recalculated")]
    /\ UNCHANGED <<backend, versions, dry_run, trash>>

\* cache.upsert(&file, &version) and the returned Scan
Upserted(t, effort) ==
    LET task == tasks[t]
        r == Upsert(files, versions, task.path, task.row, task.ver)
    IN /\ files' = r.files
       /\ versions' = r.versions
       /\ tasks' = [tasks EXCEPT ![t] =
                       IF r.ok THEN [task EXCEPT !.pc = "done", !.effort = effort,
                                                 !.upserts = task.upserts + 1]
                       ELSE [task EXCEPT !.pc = "done", !.err = "Cache",
                                         !.upserts = task.upserts + 1]]
       /\ UNCHANGED <<backend, dry_run, trash>>

\* variant: the file found elsewhere is extracted all the same
ScanAdoptExtracts(t) ==
    /\ tasks[t].op = "scan" /\ tasks[t].pc = "adopt"
    /\ tasks' = [tasks EXCEPT ![t] = Extracted(tasks[t], "Processed")]
    /\ UNCHANGED <<backend, files, versions, dry_run, trash>>

\* LocatedElsewhere: upsert under the other file's content hash
ScanAdopt(t) ==
    /\ tasks[t].op = "scan" /\ tasks[t].pc = "adopt"
    /\ Upserted(t, "Cached")

\* NotFound or after the delete: upsert the extracted version
ScanUpsert(t) ==
    /\ tasks[t].op = "scan" /\ tasks[t].pc = "upsert"
    /\ Upserted(t, tasks[t].effort)

----------------------------------------------------------------------------
(* Streaming scan: scan_inner.                                             *)

Event(type, path, total, effort) ==
    [type |-> type, path |-> path, total |-> total, effort |-> effort]

\* processing.next() polls the in-flight futures: a future makes progress only
\* while the generator waits in select!
Polled(t) == pc = "select" /\ t \in processing

\* yield Ok(ScanEvent::Started) and the locals of the generator
ScanStarted ==
    /\ mode = "scan" /\ pc = "init"
    /\ events' = Append(events, Event("Started", NoPath, 0, "-"))
    /\ listing' = ListStream
    /\ pc' = "select"
    /\ UNCHANGED <<backend, files, versions, dry_run, trash, mode, ctx, call, api, list_errors, discovery_complete,
                   discovered, not_processing_yet, processing, tasks>>

\* variant: the in-flight set is filled one past the limit
ScanDiscoverOneTooMany ==
    /\ mode = "scan" /\ pc = "select" /\ ~discovery_complete
    /\ listing # <<>>
    /\ LET file == Head(listing)
           t == discovered + 1
       IN /\ discovered' = discovered + 1
          /\ tasks' = [tasks EXCEPT ![t] = NewScanTask(file)]
          /\ IF Cardinality(processing) <= MAX_PROCESS_CONCURRENCY
             THEN processing' = processing \cup {t} /\ UNCHANGED not_processing_yet
             ELSE not_processing_yet' = Append(not_processing_yet, t) /\ UNCHANGED processing
          /\ events' = Append(events, Event("FileDiscovered", file.path, 0, "-"))
    /\ listing' = Tail(listing)
    /\ UNCHANGED <<backend, files, versions, dry_run, trash, mode, ctx, call, api, pc, list_errors, discovery_complete>>

\* variant: a future is held back while one place in flight is still free
ScanDiscoverQueuesEarly ==
    /\ mode = "scan" /\ pc = "select" /\ ~discovery_complete
    /\ listing # <<>>
    /\ LET file == Head(listing)
           t == discovered + 1
       IN /\ discovered' = discovered + 1
          /\ tasks' = [tasks EXCEPT ![t] = NewScanTask(file)]
          /\ IF Cardinality(processing) + 1 < MAX_PROCESS_CONCURRENCY
             THEN processing' = processing \cup {t} /\ UNCHANGED not_processing_yet
             ELSE not_processing_yet' = Append(not_processing_yet, t) /\ UNCHANGED processing
          /\ events' = Append(events, Event("FileDiscovered", file.path, 0, "-"))
    /\ listing' = Tail(listing)
    /\ UNCHANGED <<backend, files, versions, dry_run, trash, mode, ctx, call, api, pc, list_errors, discovery_complete>>

\* file_stream.next() = Some(Ok(file))
ScanDiscover ==
    /\ mode = "scan" /\ pc = "select" /\ ~discovery_complete
    /\ listing # <<>>
    /\ LET file == Head(listing)
           t == discovered + 1
       IN /\ discovered' = discovered + 1
          /\ tasks' = [tasks EXCEPT ![t] = NewScanTask(file)]
          /\ IF Cardinality(processing) < MAX_PROCESS_CONCURRENCY
             THEN processing' = processing \cup {t} /\ UNCHANGED not_processing_yet
             ELSE not_processing_yet' = Append(not_processing_yet, t) /\ UNCHANGED processing
          /\ events' = Append(events, Event("FileDiscovered", file.path, 0, "-"))
    /\ listing' = Tail(listing)
    /\ UNCHANGED <<backend, files, versions, dry_run, trash, mode, ctx, call, api, pc, list_errors, discovery_complete>>

\* file_stream.next() = Some(Err(e))
ScanListError ==
    /\ mode = "scan" /\ pc = "select" /\ ~discovery_complete
    /\ list_errors < MaxListErrors
    /\ list_errors' = list_errors + 1
    /\ events' = Append(events, Event("Error", NoPath, 0, "Storage"))
    /\ UNCHANGED <<backend, files, versions, dry_run, trash, mode, ctx, call, api, pc, listing, discovery_complete,
                   discovered, not_processing_yet, processing, tasks>>

\* variant: the end of the list stream is reported but not remembered
ScanDiscoveryCompleteForgets ==
    /\ mode = "scan" /\ pc = "select" /\ ~discovery_complete
    /\ listing = <<>>
    /\ events' = Append(events, Event("DiscoveryComplete", NoPath, discovered, "-"))
    /\ UNCHANGED <<backend, files, versions, dry_run, trash, mode, ctx, call, api, pc, listing, list_errors,
                   discovery_complete, discovered, not_processing_yet, processing, tasks>>

\* file_stream.next() = None
ScanDiscoveryComplete ==
    /\ mode = "scan" /\ pc = "select" /\ ~discovery_complete
    /\ listing = <<>>
    /\ discovery_complete' = TRUE
    /\ events' = Append(events, Event("DiscoveryComplete", NoPath, discovered, "-"))
    /\ UNCHANGED <<backend, files, versions, dry_run, trash, mode, ctx, call, api, pc, listing, list_errors,
                   discovered, not_processing_yet, processing, tasks>>

\* one poll of an in-flight scan_file_inner future
ScanPoll(t) ==
    /\ mode = "scan" /\ Polled(t)
    /\ \/ ScanLookup(t) \/ ScanRead(t) \/ ScanExists(t)
       \/ ScanDelete(t) \/ ScanAdopt(t) \/ ScanUpsert(t)
    /\ UNCHANGED <<mode, ctx, call, api, pc, listing, list_errors, discovery_complete, discovered,
                   not_processing_yet, processing, events>>

\* variant: the popped future is not pushed onto the in-flight set
ScanScannedLosesQueued(t) ==
    /\ mode = "scan" /\ Polled(t) /\ TaskDone(t)
    /\ events' = Append(events,
                    IF tasks[t].err = "-"
                    THEN Event("Scanned", tasks[t].path, 0, tasks[t].effort)
                    ELSE Event("Error", tasks[t].path, 0, "ScanFailed"))
    /\ processing' = processing \ {t}
    /\ not_processing_yet' = IF not_processing_yet = <<>> THEN <<>>
                             ELSE SubSeq(not_processing_yet, 1, Len(not_processing_yet) - 1)
    /\ UNCHANGED <<backend, files, versions, dry_run, trash, mode, ctx, call, api, pc, listing, list_errors,
                   discovery_complete, discovered, tasks>>

\* variant: a failed per-file scan is propagated out of the generator
ScanScannedStopsOnError(t) ==
    /\ mode = "scan" /\ Polled(t) /\ TaskDone(t)
    /\ events' = Append(events,
                    IF tasks[t].err = "-"
                    THEN Event("Scanned", tasks[t].path, 0, tasks[t].effort)
                    ELSE Event("Error", tasks[t].path, 0, "ScanFailed"))
    /\ pc' = IF tasks[t].err = "-" THEN pc ELSE "failed"
    /\ IF not_processing_yet # <<>>
       THEN /\ processing' = (processing \ {t}) \cup {not_processing_yet[Len(not_processing_yet)]}
            /\ not_processing_yet' = SubSeq(not_processing_yet, 1, Len(not_processing_yet) - 1)
       ELSE /\ processing' = processing \ {t}
            /\ UNCHANGED not_processing_yet
    /\ UNCHANGED <<backend, files, versions, dry_run, trash, mode, ctx, call, api, listing, list_errors,
                   discovery_complete, discovered, tasks>>

\* Some(result) = processing.next(): yield the result, promote one queued future
ScanScanned(t) ==
    /\ mode = "scan" /\ Polled(t) /\ TaskDone(t)
    /\ events' = Append(events,
                    IF tasks[t].err = "-"
                    THEN Event("Scanned", tasks[t].path, 0, tasks[t].effort)
                    ELSE Event("Error", tasks[t].path, 0, "ScanFailed"))
    /\ IF not_processing_yet # <<>>
       THEN /\ processing' = (processing \ {t}) \cup {not_processing_yet[Len(not_processing_yet)]}
            /\ not_processing_yet' = SubSeq(not_processing_yet, 1, Len(not_processing_yet) - 1)
       ELSE /\ processing' = processing \ {t}
            /\ UNCHANGED not_processing_yet
    /\ UNCHANGED <<backend, files, versions, dry_run, trash, mode, ctx, call, api, pc, listing, list_errors,
                   discovery_complete, discovered, tasks>>

Min(a, b) == IF a < b THEN a ELSE b

\* variant: Complete is yielded inside the loop, without the break
ScanElseKeepsLooping ==
    /\ mode = "scan" /\ pc = "select"
    /\ discovery_complete /\ processing = {}
    /\ events' = Append(events, Event("Complete", NoPath, 0, "-"))
    /\ UNCHANGED <<backend, files, versions, dry_run, trash, mode, ctx, call, api, pc, listing, list_errors,
                   discovery_complete, discovered, not_processing_yet, processing, tasks>>

\* else => drain a batch of the queue, or break and yield Ok(ScanEvent::Complete)
ScanElse ==
    /\ mode = "scan" /\ pc = "select"
    /\ discovery_complete /\ processing = {}
    /\ IF not_processing_yet # <<>>
       THEN LET batch == Min(MAX_PROCESS_CONCURRENCY, Len(not_processing_yet)) IN
            /\ processing' = {not_processing_yet[i] : i \in 1..batch}
            /\ not_processing_yet' = SubSeq(not_processing_yet, batch + 1, Len(not_processing_yet))
            /\ UNCHANGED <<pc, events>>
       ELSE /\ pc' = "done"
            /\ events' = Append(events, Event("Complete", NoPath, 0, "-"))
            /\ UNCHANGED <<processing, not_processing_yet>>
    /\ UNCHANGED <<backend, files, versions, dry_run, trash, mode, ctx, call, api, listing, list_errors,
                   discovery_complete, discovered, tasks>>

\* the consumer drops the stream at a suspension point: every future it owns
\* is dropped with it
Drop ==
    /\ pc = "select"
    /\ pc' = "dropped"
    /\ processing' = {}
    /\ not_processing_yet' = <<>>
    /\ UNCHANGED <<backend, files, versions, dry_run, trash, mode, ctx, call, api, listing, list_errors,
                   discovery_complete, discovered, tasks, events>>

----------------------------------------------------------------------------
(* Per-file organize futures: organize_file_inner and handle_conflict.     *)
(* A future is a stack of frames, one per call in progress; each action is *)
(* one await of the innermost call together with the synchronous code that *)
(* follows it.  A nested scan_file_inner runs in the task's scan fields.   *)

MAX_CONFLICT_DEPTH == 5

\* PathGenerator::generate_with_ext for the template "{{ work }}": the stem is
\* the work id, the suffix the compression's extension
Template(version, compression) == [name |-> version.work_id, ext |-> compression]

\* ctx.compression.unwrap_or(compression_source)
TargetCompression(file) ==
    IF ctx.compression = "-" THEN file.compression ELSE ctx.compression

\* variant: the bytes are written as they were read
ConvertCopies(data, source, target) ==
    [ok |-> TRUE, data |-> data]

\* convert(data, source, target): decode with source, encode with target
Convert(data, source, target) ==
    LET d == Decompress(source, data) IN
    IF d.ok /\ d.data.comp = "none"
    THEN [ok |-> TRUE, data |-> [comp |-> target, doc |-> d.data.doc]]
    ELSE [ok |-> FALSE, data |-> NoFile]

\* what a call returns: Ok(action) / Ok(Some(action)), Ok(None), or Err(kind)
NoRet == [opt |-> "-", action |-> "-", path |-> NoPath, err |-> "-"]
RetOk(action, p) == [opt |-> "Some", action |-> action, path |-> p, err |-> "-"]
RetNone == [opt |-> "None", action |-> "-", path |-> NoPath, err |-> "-"]
RetErr(kind) == [opt |-> "-", action |-> "-", path |-> NoPath, err |-> kind]

\* the locals of one call: organize_file_inner(file, depth) works on path/file
\* towards target; handle_conflict(incoming, existing, depth) holds incoming
\* in path/file and existing in target/tfile
NewFrame(fn, p, file, target, tfile, depth) ==
    [fn |-> fn, pc |-> IF fn = "organize" THEN "exists" ELSE "get",
     path |-> p, file |-> file, target |-> target, tfile |-> tfile, depth |-> depth,
     bytes |-> NoFile]

\* organize_file_inner(backend, cache, ctx, file, vec![]) before its first poll
NewOrganizeTask(p, file) ==
    [IdleTask EXCEPT !.op = "organize", !.path = p,
                     !.stack = <<NewFrame("organize", p, file, NoPath, NoRow, <<>>)>>]

TopOf(task) == task.stack[Len(task.stack)]
WithTop(task, f) == [task EXCEPT !.stack = [task.stack EXCEPT ![Len(task.stack)] = f]]
Pushed(task, f) == [task EXCEPT !.stack = Append(task.stack, f)]

\* the innermost call returns ret.  The outermost call completes the future.
\* organize_file_inner takes what handle_conflict returned (file.rs 113-117):
\* None lets it go on, anything else is its own result.  handle_conflict takes
\* what the recursive organize_file_inner returned (conflict.rs 79-98).
RECURSIVE Returned(_, _)
Returned(task, ret) ==
    LET n == Len(task.stack) IN
    IF n = 1
    THEN [task EXCEPT !.stack = <<>>, !.pc = "done", !.path = task.stack[1].path,
                      !.effort = ret.action, !.to = ret.path, !.err = ret.err]
    ELSE LET caller == task.stack[n - 1]
             popped == [task EXCEPT !.stack = SubSeq(task.stack, 1, n - 1)]
         IN IF caller.fn = "organize"
            THEN IF ret.opt = "None" THEN WithTop(popped, [caller EXCEPT !.pc = "unrow"])
                 ELSE Returned(popped, ret)
            ELSE CASE ret.err # "-" -> Returned(popped, ret)
                   [] ret.action = "AlreadyCorrect" ->
                         IF ctx.trash THEN WithTop(popped, [caller EXCEPT !.pc = "trash_read"])
                         ELSE Returned(popped, RetErr("Conflict"))
                   [] OTHER -> Returned(popped, RetNone)

At(t, fn, at) ==
    /\ tasks[t].op = "organize" /\ tasks[t].stack # <<>>
    /\ TopOf(tasks[t]).fn = fn /\ TopOf(tasks[t]).pc = at

\* scan_file_inner(backend, cache, file) called from the innermost frame
ScanCalled(task, p, file) ==
    [NewScanTask([path |-> p, size |-> file.size, compression |-> file.compression])
        EXCEPT !.stack = task.stack]
ScanReturned(t) ==
    /\ tasks[t].op = "scan" /\ tasks[t].pc = "done" /\ tasks[t].stack # <<>>
    /\ TopOf(tasks[t]).pc = "scanned"
\* the future after the scan's result has been taken
Resumed(task) == [IdleTask EXCEPT !.op = "organize", !.stack = task.stack]

\* variant: the path is not compared with the correct location
LocatedAlwaysStats(task, file, version) ==
    LET f == TopOf(task)
        correct_location == Template(version, TargetCompression(file))
    IN WithTop(task, [f EXCEPT !.pc = "stat", !.file = file, !.target = correct_location])

\* file.rs 99-106: the correct location of (file, version); AlreadyCorrect when
\* the file is there
Located(task, file, version) ==
    LET f == TopOf(task)
        correct_location == Template(version, TargetCompression(file))
    IN IF f.path = correct_location
       THEN Returned(task, RetOk("AlreadyCorrect", f.path))
       ELSE WithTop(task, [f EXCEPT !.pc = "stat", !.file = file, !.target = correct_location])

\* backend.exists(&file.path)
OrganizeExists(t) ==
    /\ At(t, "organize", "exists")
    /\ LET task == tasks[t]
           f == TopOf(task)
       IN tasks' = [tasks EXCEPT ![t] =
             WithTop(task, [f EXCEPT !.pc = IF BackendExists(f.path) THEN "get" ELSE "cleanup"])]
    /\ UNCHANGED <<backend, files, versions, dry_run, trash>>

\* the file is gone: cache.delete_by_target_path, CleanedUp
OrganizeCleanup(t) ==
    /\ At(t, "organize", "cleanup")
    /\ LET task == tasks[t]
           f == TopOf(task)
       IN /\ files' = DeleteByTargetPath(files, f.path)
          /\ tasks' = [tasks EXCEPT ![t] = Returned(task, RetOk("CleanedUp", f.path))]
    /\ UNCHANGED <<backend, versions, dry_run, trash>>

\* cache.get_by_target_path: the cached pair, or a scan of the file
OrganizeGet(t) ==
    /\ At(t, "organize", "get")
    /\ LET task == tasks[t]
           f == TopOf(task)
           r == GetByTargetPath(files, versions, f.path)
       IN tasks' = [tasks EXCEPT ![t] =
             IF r.found THEN Located(task, r.file, r.version)
             ELSE ScanCalled(WithTop(task, [f EXCEPT !.pc = "scanned"]), f.path, f.file)]
    /\ UNCHANGED <<backend, files, versions, dry_run, trash>>

\* variant: the file is deleted whatever made the scan fail
OrganizeScannedDeletesOnAnyError(t) ==
    /\ ScanReturned(t) /\ TopOf(tasks[t]).fn = "organize"
    /\ LET task == tasks[t]
           f == TopOf(task)
       IN tasks' = [tasks EXCEPT ![t] =
             CASE task.err = "-" -> Located(Resumed(task), task.row, task.ver)
               [] OTHER -> WithTop(Resumed(task), [f EXCEPT !.pc = "unlink"])]
    /\ UNCHANGED <<backend, files, versions, dry_run, trash>>

\* the result of the scan: Ok, Err(Extract), or another error
OrganizeScanned(t) ==
    /\ ScanReturned(t) /\ TopOf(tasks[t]).fn = "organize"
    /\ LET task == tasks[t]
           f == TopOf(task)
       IN tasks' = [tasks EXCEPT ![t] =
             CASE task.err = "-" -> Located(Resumed(task), task.row, task.ver)
               [] task.err = "Extract" -> WithTop(Resumed(task), [f EXCEPT !.pc = "unlink"])
               [] OTHER -> Returned(Resumed(task), RetErr("Scan"))]
    /\ UNCHANGED <<backend, files, versions, dry_run, trash>>

\* the file is not a valid document: backend.delete, CleanedUp
OrganizeUnlink(t) ==
    /\ At(t, "organize", "unlink")
    /\ LET task == tasks[t]
           f == TopOf(task)
       IN IF BackendExists(f.path)
          THEN /\ backend' = [backend EXCEPT ![f.path] = NoFile]
               /\ tasks' = [tasks EXCEPT ![t] = Returned(task, RetOk("CleanedUp", f.path))]
          ELSE /\ UNCHANGED backend
               /\ tasks' = [tasks EXCEPT ![t] = Returned(task, RetErr("Storage"))]
    /\ UNCHANGED <<files, versions, dry_run, trash>>

\* variant: the target path is taken to be free
OrganizeStatIgnoresOccupant(t) ==
    /\ At(t, "organize", "stat")
    /\ LET task == tasks[t]
           f == TopOf(task)
       IN tasks' = [tasks EXCEPT ![t] = WithTop(task, [f EXCEPT !.pc = "unrow"])]
    /\ UNCHANGED <<backend, files, versions, dry_run, trash>>

\* backend.stat(&correct_location): occupied, call handle_conflict
OrganizeStat(t) ==
    /\ At(t, "organize", "stat")
    /\ LET task == tasks[t]
           f == TopOf(task)
           existing == [NoRow EXCEPT !.size = Size(backend[f.target]),
                                     !.compression = CompressionFromPath(f.target)]
       IN tasks' = [tasks EXCEPT ![t] =
             IF BackendExists(f.target)
             THEN Pushed(WithTop(task, [f EXCEPT !.pc = "conflicted"]),
                         NewFrame("conflict", f.path, f.file, f.target, existing, f.depth))
             ELSE WithTop(task, [f EXCEPT !.pc = "unrow"])]
    /\ UNCHANGED <<backend, files, versions, dry_run, trash>>

\* _ = cache.delete_by_target_path(&file.target, &file.path)
OrganizeUnrow(t) ==
    /\ At(t, "organize", "unrow")
    /\ LET task == tasks[t]
           f == TopOf(task)
       IN /\ files' = DeleteByTargetPath(files, f.path)
          /\ tasks' = [tasks EXCEPT ![t] =
                WithTop(task, [f EXCEPT !.pc = IF f.file.compression = TargetCompression(f.file)
                                                THEN "rename" ELSE "read"])]
    /\ UNCHANGED <<backend, versions, dry_run, trash>>

\* variant: the bytes are copied and the source is left behind
OrganizeRenameCopies(t) ==
    /\ At(t, "organize", "rename")
    /\ LET task == tasks[t]
           f == TopOf(task)
       IN IF BackendExists(f.path)
          THEN /\ backend' = [backend EXCEPT ![f.target] = backend[f.path]]
               /\ tasks' = [tasks EXCEPT ![t] = WithTop(task, [f EXCEPT !.pc = "repath"])]
          ELSE /\ UNCHANGED backend
               /\ tasks' = [tasks EXCEPT ![t] = Returned(task, RetErr("Storage"))]
    /\ UNCHANGED <<files, versions, dry_run, trash>>

\* backend.rename(&file.path, &correct_location)
OrganizeRename(t) ==
    /\ At(t, "organize", "rename")
    /\ LET task == tasks[t]
           f == TopOf(task)
       IN IF BackendExists(f.path)
          THEN /\ backend' = [backend EXCEPT ![f.path] = NoFile, ![f.target] = backend[f.path]]
               /\ tasks' = [tasks EXCEPT ![t] = WithTop(task, [f EXCEPT !.pc = "repath"])]
          ELSE /\ UNCHANGED backend
               /\ tasks' = [tasks EXCEPT ![t] = Returned(task, RetErr("Storage"))]
    /\ UNCHANGED <<files, versions, dry_run, trash>>

\* backend.read(&file.path) and convert
OrganizeRead(t) ==
    /\ At(t, "organize", "read")
    /\ LET task == tasks[t]
           f == TopOf(task)
           converted == Convert(backend[f.path], f.file.compression, TargetCompression(f.file))
       IN tasks' = [tasks EXCEPT ![t] =
             IF ~BackendExists(f.path) THEN Returned(task, RetErr("Storage"))
             ELSE IF ~converted.ok THEN Returned(task, RetErr("Compression"))
             ELSE WithTop(task, [f EXCEPT !.pc = "write", !.bytes = converted.data])]
    /\ UNCHANGED <<backend, files, versions, dry_run, trash>>

\* backend.write(&correct_location, &converted)
OrganizeWrite(t) ==
    /\ At(t, "organize", "write")
    /\ LET task == tasks[t]
           f == TopOf(task)
       IN /\ backend' = [backend EXCEPT ![f.target] = f.bytes]
          /\ tasks' = [tasks EXCEPT ![t] = WithTop(task, [f EXCEPT !.pc = "delete"])]
    /\ UNCHANGED <<files, versions, dry_run, trash>>

\* backend.delete(&file.path)
OrganizeDelete(t) ==
    /\ At(t, "organize", "delete")
    /\ LET task == tasks[t]
           f == TopOf(task)
       IN IF BackendExists(f.path)
          THEN /\ backend' = [backend EXCEPT ![f.path] = NoFile]
               /\ tasks' = [tasks EXCEPT ![t] = WithTop(task, [f EXCEPT !.pc = "repath"])]
          ELSE /\ UNCHANGED backend
               /\ tasks' = [tasks EXCEPT ![t] = Returned(task, RetErr("Storage"))]
    /\ UNCHANGED <<files, versions, dry_run, trash>>

\* _ = cache.update_target_path(&file.target, &file.path, &correct_location)
OrganizeRepath(t) ==
    /\ At(t, "organize", "repath")
    /\ LET task == tasks[t]
           f == TopOf(task)
       IN /\ files' = UpdateTargetPath(files, f.path, f.target).files
          /\ tasks' = [tasks EXCEPT ![t] = Returned(task, RetOk("Renamed", f.target))]
    /\ UNCHANGED <<backend, versions, dry_run, trash>>

InSeq(x, seq) == \E i \in 1..Len(seq) : seq[i] = x

\* variant: a cycle or a chain too long yields the slot instead of failing
ComparedYields(task, existing) ==
    LET f == TopOf(task) IN
    IF f.file.content_hash = existing.content_hash
    THEN WithTop(task, [f EXCEPT !.pc = "dedupe", !.tfile = existing])
    ELSE IF Len(f.depth) > MAX_CONFLICT_DEPTH \/ InSeq(f.target, f.depth)
    THEN Returned(task, RetNone)
    ELSE Pushed(WithTop(task, [f EXCEPT !.pc = "relocated", !.tfile = existing]),
                NewFrame("organize", f.target, existing, NoPath, NoRow,
                         Append(f.depth, f.target)))

\* conflict.rs 62-79: duplicates, the depth check, or the recursive call
Compared(task, existing) ==
    LET f == TopOf(task) IN
    IF f.file.content_hash = existing.content_hash
    THEN WithTop(task, [f EXCEPT !.pc = "dedupe", !.tfile = existing])
    ELSE IF Len(f.depth) > MAX_CONFLICT_DEPTH \/ InSeq(f.target, f.depth)
    THEN Returned(task, RetErr("Conflict"))
    ELSE Pushed(WithTop(task, [f EXCEPT !.pc = "relocated", !.tfile = existing]),
                NewFrame("organize", f.target, existing, NoPath, NoRow,
                         Append(f.depth, f.target)))

\* cache.get_by_target_path(&incoming.target, &existing.path)
ConflictGet(t) ==
    /\ At(t, "conflict", "get")
    /\ LET task == tasks[t]
           f == TopOf(task)
           r == GetByTargetPath(files, versions, f.target)
       IN tasks' = [tasks EXCEPT ![t] =
             IF r.found THEN Compared(task, r.file)
             ELSE ScanCalled(WithTop(task, [f EXCEPT !.pc = "scanned"]), f.target, f.tfile)]
    /\ UNCHANGED <<backend, files, versions, dry_run, trash>>

\* the result of scanning the occupant
ConflictScanned(t) ==
    /\ ScanReturned(t) /\ TopOf(tasks[t]).fn = "conflict"
    /\ LET task == tasks[t]
           f == TopOf(task)
       IN tasks' = [tasks EXCEPT ![t] =
             CASE task.err = "-" -> Compared(Resumed(task), task.row)
               [] task.err = "Extract" -> WithTop(Resumed(task), [f EXCEPT !.pc = "unlink"])
               [] OTHER -> Returned(Resumed(task), RetErr("Scan"))]
    /\ UNCHANGED <<backend, files, versions, dry_run, trash>>

\* the occupant is not a valid document: backend.delete(&existing_path)
ConflictUnlink(t) ==
    /\ At(t, "conflict", "unlink")
    /\ LET task == tasks[t]
           f == TopOf(task)
       IN IF BackendExists(f.target)
          THEN /\ backend' = [backend EXCEPT ![f.target] = NoFile]
               /\ tasks' = [tasks EXCEPT ![t] = Returned(task, RetNone)]
          ELSE /\ UNCHANGED backend
               /\ tasks' = [tasks EXCEPT ![t] = Returned(task, RetErr("Storage"))]
    /\ UNCHANGED <<files, versions, dry_run, trash>>

\* variant: the file that is deleted is the one at the target path
ConflictDedupeDeletesExisting(t) ==
    /\ At(t, "conflict", "dedupe")
    /\ LET task == tasks[t]
           f == TopOf(task)
       IN IF BackendExists(f.target)
          THEN /\ backend' = [backend EXCEPT ![f.target] = NoFile]
               /\ tasks' = [tasks EXCEPT ![t] = Returned(task, RetOk("CleanedUp", f.path))]
          ELSE /\ UNCHANGED backend
               /\ tasks' = [tasks EXCEPT ![t] = Returned(task, RetErr("Storage"))]
    /\ UNCHANGED <<files, versions, dry_run, trash>>

\* same content hash: backend.delete(&incoming.path), CleanedUp
ConflictDedupe(t) ==
    /\ At(t, "conflict", "dedupe")
    /\ LET task == tasks[t]
           f == TopOf(task)
       IN IF BackendExists(f.path)
          THEN /\ backend' = [backend EXCEPT ![f.path] = NoFile]
               /\ tasks' = [tasks EXCEPT ![t] = Returned(task, RetOk("CleanedUp", f.path))]
          ELSE /\ UNCHANGED backend
               /\ tasks' = [tasks EXCEPT ![t] = Returned(task, RetErr("Storage"))]
    /\ UNCHANGED <<files, versions, dry_run, trash>>

\* backend.read(&incoming.path)
ConflictTrashRead(t) ==
    /\ At(t, "conflict", "trash_read")
    /\ LET task == tasks[t]
           f == TopOf(task)
       IN tasks' = [tasks EXCEPT ![t] =
             IF BackendExists(f.path)
             THEN WithTop(task, [f EXCEPT !.pc = "trash_write", !.bytes = backend[f.path]])
             ELSE Returned(task, RetErr("Storage"))]
    /\ UNCHANGED <<backend, files, versions, dry_run, trash>>

\* variant: the result of the write to the trash backend is not looked at
ConflictTrashWriteUnchecked(t) ==
    /\ At(t, "conflict", "trash_write")
    /\ LET task == tasks[t]
           f == TopOf(task)
       IN /\ \/ trash' = trash \cup {[file_hash |-> f.file.file_hash,
                                      ext |-> f.file.compression, data |-> f.bytes]}
             \/ UNCHANGED trash
          /\ tasks' = [tasks EXCEPT ![t] = WithTop(task, [f EXCEPT !.pc = "trash_delete"])]
    /\ UNCHANGED <<backend, files, versions, dry_run>>

\* trash.write(&trash_name, &contents): the bytes are stored under a name made
\* of the file hash and the extension, or the write fails with a storage error
ConflictTrashWrite(t) ==
    /\ At(t, "conflict", "trash_write")
    /\ LET task == tasks[t]
           f == TopOf(task)
       IN \/ /\ trash' = trash \cup {[file_hash |-> f.file.file_hash,
                                      ext |-> f.file.compression, data |-> f.bytes]}
             /\ tasks' = [tasks EXCEPT ![t] = WithTop(task, [f EXCEPT !.pc = "trash_delete"])]
          \/ /\ UNCHANGED trash
             /\ tasks' = [tasks EXCEPT ![t] = Returned(task, RetErr("Storage"))]
    /\ UNCHANGED <<backend, files, versions, dry_run>>

\* backend.delete(&incoming.path), then bail Conflict
ConflictTrashDelete(t) ==
    /\ At(t, "conflict", "trash_delete")
    /\ LET task == tasks[t]
           f == TopOf(task)
       IN IF BackendExists(f.path)
          THEN /\ backend' = [backend EXCEPT ![f.path] = NoFile]
               /\ tasks' = [tasks EXCEPT ![t] = Returned(task, RetErr("Conflict"))]
          ELSE /\ UNCHANGED backend
               /\ tasks' = [tasks EXCEPT ![t] = Returned(task, RetErr("Storage"))]
    /\ UNCHANGED <<files, versions, dry_run, trash>>

\* one poll of an organize future: the next await of its innermost call
OrganizeFileStep(t) ==
    \/ ScanLookup(t) \/ ScanRead(t) \/ ScanExists(t)
    \/ ScanDelete(t) \/ ScanAdopt(t) \/ ScanUpsert(t)
    \/ OrganizeExists(t) \/ OrganizeCleanup(t) \/ OrganizeGet(t) \/ OrganizeScanned(t)
    \/ OrganizeUnlink(t) \/ OrganizeStat(t) \/ OrganizeUnrow(t)
    \/ OrganizeRename(t) \/ OrganizeRead(t) \/ OrganizeWrite(t) \/ OrganizeDelete(t)
    \/ OrganizeRepath(t)
    \/ ConflictGet(t) \/ ConflictScanned(t) \/ ConflictUnlink(t) \/ ConflictDedupe(t)
    \/ ConflictTrashRead(t) \/ ConflictTrashWrite(t) \/ ConflictTrashDelete(t)

----------------------------------------------------------------------------
(* Streaming organize: organize_inner.                                     *)

\* cache.list_files_for_target: the file rows of the target with their paths
ListFilesForTarget ==
    LET seq == SortedByName({p \in Paths : files[p] # NoRow}) IN
    [i \in 1..Len(seq) |-> [path |-> seq[i], file |-> FileOfRow(files[seq[i]])]]

\* yield Ok(OrganizeEvent::Started)
OrganizeStarted ==
    /\ mode = "organize" /\ pc = "init"
    /\ events' = Append(events, Event("Started", NoPath, 0, "-"))
    /\ pc' = "list"
    /\ UNCHANGED <<backend, files, versions, dry_run, trash, mode, ctx, call, api, listing, list_errors,
                   discovery_complete, discovered, not_processing_yet, processing, tasks>>

\* variant: the generator falls through to the end of its body
OrganizeListFailedGoesOn ==
    /\ mode = "organize" /\ pc = "list"
    /\ events' = Append(events, Event("Error", NoPath, 0, "Cache"))
    /\ pc' = "select"
    /\ UNCHANGED <<backend, files, versions, dry_run, trash, mode, ctx, call, api, listing, list_errors,
                   discovery_complete, discovered, not_processing_yet, processing, tasks>>

\* list_files_for_target failed: yield Err(e); return
OrganizeListFailed ==
    /\ mode = "organize" /\ pc = "list"
    /\ events' = Append(events, Event("Error", NoPath, 0, "Cache"))
    /\ pc' = "failed"
    /\ UNCHANGED <<backend, files, versions, dry_run, trash, mode, ctx, call, api, listing, list_errors,
                   discovery_complete, discovered, not_processing_yet, processing, tasks>>

\* yield DiscoveryComplete(files.len()), then build the futures and start the
\* first MAX_PROCESS_CONCURRENCY of them
OrganizeDiscovered ==
    /\ mode = "organize" /\ pc = "list"
    /\ LET found == ListFilesForTarget
           n == Len(found)
           first == Min(MAX_PROCESS_CONCURRENCY, n)
       IN /\ events' = Append(events, Event("DiscoveryComplete", NoPath, n, "-"))
          /\ discovered' = n
          /\ tasks' = [t \in TaskIds |->
                          IF t <= n THEN NewOrganizeTask(found[t].path, found[t].file)
                          ELSE tasks[t]]
          /\ processing' = 1..first
          /\ not_processing_yet' = [i \in 1..(n - first) |-> first + i]
    /\ discovery_complete' = TRUE
    /\ pc' = "select"
    /\ UNCHANGED <<backend, files, versions, dry_run, trash, mode, ctx, call, api, listing, list_errors>>

\* one poll of an in-flight organize_file_inner future
OrganizePoll(t) ==
    /\ mode = "organize" /\ Polled(t)
    /\ OrganizeFileStep(t)
    /\ UNCHANGED <<mode, ctx, call, api, pc, listing, list_errors, discovery_complete, discovered,
                   not_processing_yet, processing, events>>

\* variant: the first Err item is the last item of the stream
OrganizeOrganizedStopsOnError(t) ==
    /\ mode = "organize" /\ Polled(t) /\ TaskDone(t)
    /\ events' = Append(events,
                    IF tasks[t].err = "-"
                    THEN Event("Organized", tasks[t].to, 0, tasks[t].effort)
                    ELSE Event("Error", tasks[t].path, 0, tasks[t].err))
    /\ IF not_processing_yet # <<>>
       THEN /\ processing' = (processing \ {t}) \cup {Head(not_processing_yet)}
            /\ not_processing_yet' = Tail(not_processing_yet)
       ELSE /\ processing' = processing \ {t}
            /\ UNCHANGED not_processing_yet
    /\ pc' = IF tasks[t].err = "-" THEN pc ELSE "failed"
    /\ UNCHANGED <<backend, files, versions, dry_run, trash, mode, ctx, call, api, listing, list_errors,
                   discovery_complete, discovered, tasks>>

\* Some(result) = processing.next(): yield it, push futures.remove(0)
OrganizeOrganized(t) ==
    /\ mode = "organize" /\ Polled(t) /\ TaskDone(t)
    /\ events' = Append(events,
                    IF tasks[t].err = "-"
                    THEN Event("Organized", tasks[t].to, 0, tasks[t].effort)
                    ELSE Event("Error", tasks[t].path, 0, tasks[t].err))
    /\ IF not_processing_yet # <<>>
       THEN /\ processing' = (processing \ {t}) \cup {Head(not_processing_yet)}
            /\ not_processing_yet' = Tail(not_processing_yet)
       ELSE /\ processing' = processing \ {t}
            /\ UNCHANGED not_processing_yet
    /\ UNCHANGED <<backend, files, versions, dry_run, trash, mode, ctx, call, api, pc, listing, list_errors,
                   discovery_complete, discovered, tasks>>

\* processing.next() = None: yield Ok(OrganizeEvent::Complete)
OrganizeComplete ==
    /\ mode = "organize" /\ pc = "select"
    /\ processing = {}
    /\ events' = Append(events, Event("Complete", NoPath, 0, "-"))
    /\ pc' = "done"
    /\ UNCHANGED <<backend, files, versions, dry_run, trash, mode, ctx, call, api, listing, list_errors,
                   discovery_complete, discovered, not_processing_yet, processing, tasks>>

\* no organize pass is configured
NoContext == [compression |-> "-", trash |-> FALSE]

\* no organize_file call has been made
Uncalled == [path |-> NoPath, backend |-> <<>>, files |-> <<>>, versions |-> {}, io |-> {}]

----------------------------------------------------------------------------
(* Initial states.                                                         *)

\* the library as the run finds it
InitBackend ==
    [p \in Paths |->
        IF p.ext # "bz2" \/ p.name > NumStored THEN NoFile
        ELSE CASE p.name = 1 -> [comp |-> "bz2", doc |-> "A"]
               [] p.name = 2 -> [comp |-> "bz2", doc |-> "A"]
               [] p.name = 3 -> [comp |-> "bz2", doc |-> "junk"]
               [] OTHER -> [comp |-> "bz2", doc |-> "B"]]

\* the library as an earlier scan found it
OldBackend ==
    [p \in Paths |->
        CASE p.name = 1 /\ p.ext = "bz2" -> [comp |-> "bz2", doc |-> "B"]
          [] p.name = 2 /\ p.ext = "gz" -> [comp |-> "gz", doc |-> "A"]
          [] p.name = 4 /\ p.ext = "bz2" -> [comp |-> "bz2", doc |-> "A2"]
          [] OTHER -> NoFile]

\* what scan_file on an empty cache stores for stored bytes b at path p
ScannedVersion(p, b) == Extract(Decompress(CompressionFromPath(p), b).data)
Scannable(p, b) == b # NoFile /\ Decompress(CompressionFromPath(p), b).ok /\ ScannedVersion(p, b).ok

\* the cache a completed scan of backend b leaves behind
FilesAfterScan(b) ==
    [p \in Paths |-> IF Scannable(p, b[p])
                     THEN [size |-> Size(b[p]), compression |-> CompressionFromPath(p),
                           file_hash |-> Blake3(b[p]),
                           content_hash |-> ScannedVersion(p, b[p]).version.hash,
                           discovered_at |-> Epoch]
                     ELSE NoRow]
VersionsAfterScan(b) == {ScannedVersion(p, b[p]).version : p \in {q \in Paths : Scannable(q, b[q])}}

InitStream ==
    /\ pc = "init"
    /\ listing = <<>>
    /\ list_errors = 0
    /\ discovery_complete = FALSE
    /\ discovered = 0
    /\ not_processing_yet = <<>>
    /\ processing = {}
    /\ tasks = [t \in TaskIds |-> IdleTask]
    /\ events = <<>>
    /\ api = NoCall
    /\ trash = {}
    /\ call = Uncalled

\* a library holding document e.doc, compressed as its extension says, at
\* each path <<e.name, e.ext>> of entries
Library(entries) ==
    [p \in Paths |->
        IF \E e \in entries : e.name = p.name /\ e.ext = p.ext
        THEN [comp |-> p.ext,
              doc |-> (CHOOSE e \in entries : e.name = p.name /\ e.ext = p.ext).doc]
        ELSE NoFile]
At_(name, ext, doc) == [name |-> name, ext |-> ext, doc |-> doc]

\* the organize passes the model runs: the library an earlier scan cached, the
\* files added to it since, and the Context.  B at the place of work 1 with two
\* versions of work 1 away from it; a true collision and a duplicate, with a
\* trash backend; an invalid file at the place of work 2; a pass that
\* recompresses to bzip2; a new file at the place of work 2
Scenario(scanned, added, compression, with_trash) ==
    [scanned |-> Library(scanned), library |-> Library(scanned \cup added),
     ctx |-> [compression |-> compression, trash |-> with_trash]]
OrganizeScenarios ==
    {Scenario({At_(1, "bz2", "B"), At_(3, "bz2", "A"), At_(4, "bz2", "A2")}, {}, "-", FALSE),
     Scenario({At_(1, "bz2", "A"), At_(3, "bz2", "A"), At_(4, "bz2", "A2")}, {}, "-", TRUE),
     Scenario({At_(1, "bz2", "B"), At_(3, "bz2", "B"), At_(4, "bz2", "A")},
              {At_(2, "bz2", "junk")}, "-", FALSE),
     Scenario({At_(1, "gz", "A"), At_(2, "gz", "A"), At_(3, "gz", "B")}, {}, "bz2", FALSE),
     Scenario({At_(1, "bz2", "B"), At_(3, "bz2", "A"), At_(4, "bz2", "B")},
              {At_(2, "bz2", "A2")}, "-", FALSE)}

ScanInit ==
    /\ backend = InitBackend
    /\ \/ files = [p \in Paths |-> NoRow] /\ versions = {}
       \/ files = FilesAfterScan(OldBackend) /\ versions = VersionsAfterScan(OldBackend)
    /\ mode = "scan"
    /\ ctx = NoContext

OrganizeInit ==
    /\ \E scenario \in OrganizeScenarios :
          /\ backend = scenario.library
          /\ files = FilesAfterScan(scenario.scanned)
          /\ versions = VersionsAfterScan(scenario.scanned)
          /\ ctx = scenario.ctx
    /\ mode = "organize"

Init ==
    /\ ScanInit \/ OrganizeInit
    /\ dry_run = FALSE
    /\ InitStream

ScanNext ==
    \/ ScanStarted
    \/ ScanDiscover
    \/ ScanListError
    \/ ScanDiscoveryComplete
    \/ \E t \in TaskIds : ScanPoll(t)
    \/ \E t \in TaskIds : ScanScanned(t)
    \/ ScanElse

OrganizeNext ==
    \/ OrganizeStarted
    \/ OrganizeListFailed
    \/ OrganizeDiscovered
    \/ \E t \in TaskIds : OrganizePoll(t)
    \/ \E t \in TaskIds : OrganizeOrganized(t)
    \/ OrganizeComplete

Next == ScanNext \/ OrganizeNext \/ Drop

Spec == Init /\ [][Next]_vars

----------------------------------------------------------------------------
(* Single-file scan driven by a caller: scan_file.                         *)

\* the paths and the stored bytes the caller's library varies over
FilePaths == {p \in Paths : p.ext = "bz2" /\ p.name <= 2}
FileBytes == {[comp |-> "bz2", doc |-> "A"], [comp |-> "bz2", doc |-> "A2"],
              [comp |-> "bz2", doc |-> "B"], [comp |-> "bz2", doc |-> "junk"],
              [comp |-> "gz", doc |-> "A"]}

Caller == 1
CallerIdle == tasks[Caller].pc \in {"idle", "done"}

\* between two calls something else writes or removes a file of the backend
EnvWrite(p, b) ==
    /\ CallerIdle
    /\ backend[p] # b
    /\ backend' = [backend EXCEPT ![p] = b]
    /\ tasks' = [tasks EXCEPT ![Caller] = IdleTask]
    /\ UNCHANGED <<files, versions, dry_run, trash, mode, ctx, call, api, pc, listing, list_errors, discovery_complete,
                   discovered, not_processing_yet, processing, events>>

EnvDelete(p) ==
    /\ CallerIdle
    /\ BackendExists(p)
    /\ backend' = [backend EXCEPT ![p] = NoFile]
    /\ tasks' = [tasks EXCEPT ![Caller] = IdleTask]
    /\ UNCHANGED <<files, versions, dry_run, trash, mode, ctx, call, api, pc, listing, list_errors, discovery_complete,
                   discovered, not_processing_yet, processing, events>>

\* scan_file(backend, cache, backend.stat(p))
CallScanFile(p) ==
    /\ CallerIdle
    /\ BackendExists(p)
    /\ tasks' = [tasks EXCEPT ![Caller] =
                    [NewScanTask(FileInfoOf(p)) EXCEPT
                        !.again = TaskOk(Caller) /\ tasks[Caller].path = p]]
    /\ UNCHANGED <<backend, files, versions, dry_run, trash, mode, ctx, call, api, pc, listing, list_errors,
                   discovery_complete, discovered, not_processing_yet, processing, events>>

\* the caller awaits the future
FileStep ==
    /\ \/ ScanLookup(Caller) \/ ScanRead(Caller) \/ ScanExists(Caller)
       \/ ScanDelete(Caller) \/ ScanAdopt(Caller) \/ ScanUpsert(Caller)
    /\ UNCHANGED <<mode, ctx, call, api, pc, listing, list_errors, discovery_complete, discovered,
                   not_processing_yet, processing, events>>

FileInit ==
    /\ backend = [p \in Paths |-> NoFile]
    /\ files = [p \in Paths |-> NoRow]
    /\ versions = {}
    /\ dry_run = FALSE
    /\ mode = "file"
    /\ ctx = NoContext
    /\ InitStream

FileNext ==
    \/ \E p \in FilePaths, b \in FileBytes : EnvWrite(p, b)
    \/ \E p \in FilePaths : EnvDelete(p)
    \/ \E p \in FilePaths : CallScanFile(p)
    \/ FileStep

FileSpec == FileInit /\ [][FileNext]_vars

----------------------------------------------------------------------------
(* Single-file organize driven by a caller: organize_file.                 *)

\* the libraries organize_file is called on: what an earlier scan cached, what
\* the backend holds now, and the Context
OrganizeCase(scanned, stored, compression, with_trash) ==
    [scanned |-> Library(scanned), library |-> Library(stored),
     ctx |-> [compression |-> compression, trash |-> with_trash]]

\* works 2 to 8 each at the place of the work before it
Chain == {At_(1, "bz2", "B"), At_(2, "bz2", "C"), At_(3, "bz2", "D"), At_(4, "bz2", "E"),
          At_(5, "bz2", "F"), At_(6, "bz2", "G"), At_(7, "bz2", "H")}
\* the chain closed by work 1 at the place of work 8
Cycle == Chain \cup {At_(8, "bz2", "A")}
\* A and B each at the place of the other
Swapped == {At_(2, "bz2", "A"), At_(1, "bz2", "B")}
\* A where it belongs, another version and a copy of it elsewhere
Collision == {At_(1, "bz2", "A"), At_(3, "bz2", "A2"), At_(4, "bz2", "A")}
\* gzip files of a library that is to be bzip2
Gzipped == {At_(1, "gz", "A"), At_(3, "gz", "B"), At_(4, "gz", "A2")}

\* B at the place of another version of A, which is at the place of A
Nested == {At_(5, "bz2", "B"), At_(2, "bz2", "A2"), At_(1, "bz2", "A")}

\* a library whose file at entry's path holds gzip bytes under a bzip2 name
Mislabelled(stored, entry) ==
    [Library(stored) EXCEPT ![[name |-> entry.name, ext |-> "bz2"]] =
        [comp |-> "gz", doc |-> entry.doc]]

OrganizeCases ==
    {OrganizeCase(Chain, Chain, "-", FALSE),
     OrganizeCase(Cycle, Cycle, "-", FALSE),
     OrganizeCase(Swapped, Swapped, "-", FALSE),
     OrganizeCase(Swapped, Swapped, "-", TRUE),
     OrganizeCase({}, Swapped, "-", FALSE),
     OrganizeCase(Nested, Nested, "-", TRUE),
     \* with a cached file that is no longer stored
     OrganizeCase(Collision \cup {At_(5, "bz2", "B")}, Collision, "-", FALSE),
     OrganizeCase(Collision \cup {At_(5, "bz2", "B")}, Collision, "-", TRUE),
     \* with files nobody cached: invalid ones, a copy of B where B belongs, and
     \* C where it belongs
     OrganizeCase({At_(4, "bz2", "A"), At_(5, "bz2", "B")},
                  {At_(4, "bz2", "A"), At_(5, "bz2", "B"), At_(1, "bz2", "junk"),
                   At_(2, "bz2", "B"), At_(3, "bz2", "C"), At_(6, "bz2", "junk")},
                  "-", FALSE),
     OrganizeCase(Gzipped, Gzipped, "bz2", FALSE),
     OrganizeCase(Swapped, Swapped, "gz", FALSE),
     \* with files nobody cached: a copy of B away from where B belongs, and a
     \* file that does not decompress
     [scanned |-> Library({At_(1, "bz2", "A"), At_(2, "bz2", "B")}),
      library |-> Mislabelled({At_(1, "bz2", "A"), At_(2, "bz2", "B"), At_(7, "bz2", "B")},
                              At_(6, "bz2", "C")),
      ctx |-> NoContext]}

\* the caller holds no future, or one that has returned
NoCallInProgress == tasks[Caller].stack = <<>> /\ tasks[Caller].pc \in {"idle", "done"}

\* the FileInfo the caller passes for p: the cached row (as organize_inner
\* does), or backend.stat(p)
FileInfoFor(p) ==
    IF files[p] # NoRow THEN FileOfRow(files[p])
    ELSE [NoRow EXCEPT !.size = Size(backend[p]), !.compression = CompressionFromPath(p)]

\* organize_file(backend, cache, ctx, file)
CallOrganizeFile(p) ==
    /\ NoCallInProgress
    /\ files[p] # NoRow \/ BackendExists(p)
    /\ tasks' = [tasks EXCEPT ![Caller] = NewOrganizeTask(p, FileInfoFor(p))]
    /\ call' = [path |-> p, backend |-> backend, files |-> files, versions |-> versions,
                io |-> {}]
    /\ UNCHANGED <<backend, files, versions, dry_run, trash, mode, ctx, api, pc, listing,
                   list_errors, discovery_complete, discovered, not_processing_yet,
                   processing, events>>

\* the operation on the primary backend that the future makes at its next poll
BackendCall(task) ==
    IF task.op = "scan" THEN (IF task.pc = "read" THEN "read" ELSE "-")
    ELSE IF task.stack = <<>> THEN "-"
    ELSE LET at == TopOf(task).pc IN
         CASE at = "exists" -> "exists"
           [] at = "stat" -> "stat"
           [] at = "rename" -> "rename"
           [] at \in {"read", "trash_read"} -> "read"
           [] at = "write" -> "write"
           [] at \in {"delete", "unlink", "dedupe", "trash_delete"} -> "delete"
           [] OTHER -> "-"

\* the caller awaits the future
OrganizeFileAwait ==
    /\ OrganizeFileStep(Caller)
    /\ call' = [call EXCEPT !.io = @ \cup ({BackendCall(tasks[Caller])} \ {"-"})]
    /\ UNCHANGED <<mode, ctx, api, pc, listing, list_errors, discovery_complete, discovered,
                   not_processing_yet, processing, events>>

OrganizeFileInit ==
    /\ \E case \in OrganizeCases :
          /\ backend = case.library
          /\ files = FilesAfterScan(case.scanned)
          /\ versions = VersionsAfterScan(case.scanned)
          /\ ctx = case.ctx
    /\ dry_run = FALSE
    /\ mode = "organize_file"
    /\ InitStream

OrganizeFileNext ==
    \/ \E p \in Paths : CallOrganizeFile(p)
    \/ OrganizeFileAwait

OrganizeFileSpec == OrganizeFileInit /\ [][OrganizeFileNext]_vars

----------------------------------------------------------------------------
(* Version ordering: Version::cmp and Metadata::cmp, applied by a caller   *)
(* to two downloads of one work.                                           *)

\* the downloads compared: decompressed length, chapters written, and the
\* fields Metadata::cmp looks at (dates as day numbers)
CmpLengths == {1, 4, 10}
CmpChapters == {1, 3}
CmpDates == {1, 2, 3}
CmpWords == {1, 2}
CmpPublished == {1, 2}
CmpVersions ==
    [length : CmpLengths,
     metadata : [chapters_written : CmpChapters, last_modified : CmpDates,
                 words : CmpWords, published : CmpPublished]]

\* Version::appears_to_be_deletion_notice: written < other.written * 0.5 and
\* length < other.length * 0.2, in integers
AppearsToBeDeletionNotice(self, other) ==
    /\ 2 * self.metadata.chapters_written < other.metadata.chapters_written
    /\ 5 * self.length < other.length

\* Ord::cmp of two integers
IntCmp(x, y) == IF x < y THEN "Less" ELSE IF x > y THEN "Greater" ELSE "Equal"

\* Metadata::cmp
MetadataCmp(self, other) ==
    IF self.last_modified # other.last_modified
    THEN IntCmp(self.last_modified, other.last_modified)
    ELSE IF self.words # other.words THEN IntCmp(self.words, other.words)
    ELSE IF self.chapters_written # other.chapters_written
    THEN IntCmp(self.chapters_written, other.chapters_written)
    ELSE IF self.published # other.published THEN IntCmp(self.published, other.published)
    ELSE "Equal"

\* Version::cmp
VersionCmp(self, other) ==
    IF AppearsToBeDeletionNotice(self, other) THEN "Less"
    ELSE IF AppearsToBeDeletionNotice(other, self) THEN "Greater"
    ELSE MetadataCmp(self.metadata, other.metadata)

\* a.cmp(&b) called by the caller
CallCmp ==
    /\ mode = "compare" /\ api.op = "-"
    /\ api' = [api EXCEPT !.op = "cmp", !.ordering = VersionCmp(api.a, api.b)]
    /\ UNCHANGED <<backend, files, versions, dry_run, trash, mode, ctx, call, pc, listing,
                   list_errors, discovery_complete, discovered, not_processing_yet, processing,
                   tasks, events>>

\* the caller holds two downloads of one work
CompareInit ==
    /\ \E a \in CmpVersions, b \in CmpVersions :
          api = [op |-> "-", a |-> a, b |-> b, ordering |-> "-"]
    /\ mode = "compare"
    /\ backend = [p \in Paths |-> NoFile]
    /\ files = [p \in Paths |-> NoRow]
    /\ versions = {}
    /\ dry_run = FALSE
    /\ ctx = NoContext
    /\ pc = "init"
    /\ listing = <<>>
    /\ list_errors = 0
    /\ discovery_complete = FALSE
    /\ discovered = 0
    /\ not_processing_yet = <<>>
    /\ processing = {}
    /\ tasks = [t \in TaskIds |-> IdleTask]
    /\ events = <<>>
    /\ trash = {}
    /\ call = Uncalled

CompareNext == CallCmp

CompareSpec == CompareInit /\ [][CompareNext]_vars

----------------------------------------------------------------------------
(* The downloads of one work kept in the cache: get_by_work_id and         *)
(* get_best_for_work_id on a database an earlier scan filled.              *)

\* a stored Version with the fields Version::cmp reads
Download(h, w, len, chapters, modified) ==
    [hash |-> <<"none", h>>, work_id |-> w, extracted_at |-> Epoch, length |-> len,
     metadata |-> [chapters_written |-> chapters, last_modified |-> modified,
                   words |-> 1, published |-> 1]]
\* three downloads of work 1 (a stub saved last, the full work, a draft) and
\* one of work 2, each with the name of the path its first copy is stored at
BestDownloads ==
    {[name |-> 1, version |-> Download("A", 1, 1, 1, 3)],
     [name |-> 2, version |-> Download("B", 1, 10, 3, 1)],
     [name |-> 3, version |-> Download("C", 1, 4, 1, 2)],
     [name |-> 4, version |-> Download("D", 2, 4, 1, 1)]}
BestWorkIds == {1, 2, 3}

\* the bzip2 file row of a download, and its gzip copy
BestFile(d, ext) ==
    FileRow([size |-> d.version.length, compression |-> ext, file_hash |-> <<ext, d.version.hash[2]>>,
             content_hash |-> d.version.hash, discovered_at |-> Epoch])
\* the database holding the downloads in stored, those in copied twice
BestDatabase(stored, copied) ==
    [files |-> [p \in Paths |->
                   IF \E d \in stored : d.name = p.name /\ (p.ext = "bz2" \/ d \in copied)
                   THEN BestFile(CHOOSE d \in stored : d.name = p.name, p.ext)
                   ELSE NoRow],
     versions |-> {VersionRow(d.version) : d \in stored}]

\* the rows of queries/get_by_work_id.sql as (File, Version) pairs: each
\* version of the work joined with each file row that references it
WorkIdRows(fs, vs, w) ==
    {[path |-> x[1], file |-> FileOfRow(fs[x[1]]), version |-> VersionOfRow(x[2])] :
        x \in {y \in Paths \X vs : /\ y[2].work_id = w
                                   /\ fs[y[1]] # NoRow
                                   /\ fs[y[1]].content_hash = y[2].hash}}

\* group_files_by_version: one (Version, Vec<File>) per content hash
GroupFilesByVersion(rows) ==
    {[version |-> v,
      files |-> {[path |-> r.path, file |-> r.file] : r \in {x \in rows : x.version.hash = v.hash}}] :
        v \in {r.version : r \in rows}}

\* HashMap::into_values: the groups in any order
IntoValues(groups) ==
    {s \in [1..Cardinality(groups) -> groups] : \A i, j \in DOMAIN s : i # j => s[i] # s[j]}

\* slice::sort_by(|(a, _), (b, _)| b.cmp(a)) on a short slice: insertion
\* sort, the tail moving left past every element it is less than, which
\* under this comparator is every element whose version compares Less
RECURSIVE InsertTail(_, _)
InsertTail(sorted, x) ==
    IF sorted = <<>> THEN <<x>>
    ELSE LET y == sorted[Len(sorted)] IN
         IF VersionCmp(y.version, x.version) = "Less"
         THEN Append(InsertTail(SubSeq(sorted, 1, Len(sorted) - 1), x), y)
         ELSE Append(sorted, x)
RECURSIVE SortBy(_)
SortBy(v) ==
    IF v = <<>> THEN <<>>
    ELSE InsertTail(SortBy(SubSeq(v, 1, Len(v) - 1)), v[Len(v)])

\* Repository::get_by_work_id: every result the call may give
GetByWorkId(fs, vs, w) ==
    {SortBy(s) : s \in IntoValues(GroupFilesByVersion(WorkIdRows(fs, vs, w)))}

NoBest == [found |-> FALSE, version |-> NoVersion, files |-> {}]
\* Repository::get_best_for_work_id: results.into_iter().next()
GetBestForWorkId(fs, vs, w) ==
    {IF s = <<>> THEN NoBest
     ELSE [found |-> TRUE, version |-> s[1].version, files |-> s[1].files] :
        s \in GetByWorkId(fs, vs, w)}

CallGetBestForWorkId(w) ==
    /\ mode = "best"
    /\ \E r \in GetBestForWorkId(files, versions, w) :
          api' = [op |-> "get_best_for_work_id", work_id |-> w, result |-> r]
    /\ UNCHANGED <<backend, files, versions, dry_run, trash, mode, ctx, call, pc, listing,
                   list_errors, discovery_complete, discovered, not_processing_yet, processing,
                   tasks, events>>

BestInit ==
    /\ backend = [p \in Paths |-> NoFile]
    /\ \E stored \in SUBSET BestDownloads : \E copied \in SUBSET stored :
          /\ files = BestDatabase(stored, copied).files
          /\ versions = BestDatabase(stored, copied).versions
    /\ dry_run = FALSE
    /\ mode = "best"
    /\ ctx = NoContext
    /\ InitStream

BestNext == \E w \in BestWorkIds : CallGetBestForWorkId(w)

BestSpec == BestInit /\ [][BestNext]_vars

----------------------------------------------------------------------------
(* The path validator: validate(path) on the strings a caller may pass, on *)
(* a Unix build and on a Windows build.                                    *)

\* longest path string validated
MaxPathLen == 5
\* the characters of a path: the separator, a dot, a letter and a null byte
PathChars == {"/", ".", "a", "nul"}
\* a drive letter with its colon, written only at the start of a path
Drive == "c:"
PathStrings == UNION {[1..n -> PathChars] : n \in 0..MaxPathLen}
PathInputs == PathStrings \cup {<<Drive>> \o p : p \in {q \in PathStrings : Len(q) < MaxPathLen}}

\* the pieces of a string between separators
RECURSIVE Segments(_)
Segments(p) ==
    IF p = <<>> THEN << <<>> >>
    ELSE LET rest == Segments(Tail(p)) IN
         IF Head(p) = "/" THEN << <<>> >> \o rest
         ELSE << <<Head(p)>> \o Head(rest) >> \o Tail(rest)

\* Path::components: a drive prefix on Windows, the root, then one component
\* per non-empty piece; a dot is kept only where it leads a path without root
Components(p, windows) ==
    LET prefixed == windows /\ p # <<>> /\ Head(p) = Drive
        body == IF prefixed THEN Tail(p) ELSE p
        rooted == body # <<>> /\ Head(body) = "/"
        pieces == Segments(body)
        Of(i) == IF pieces[i] = <<>> THEN [kind |-> "-", name |-> <<>>]
                 ELSE IF pieces[i] = <<".">>
                      THEN [kind |-> IF i = 1 /\ ~prefixed THEN "CurDir" ELSE "-", name |-> <<>>]
                 ELSE IF pieces[i] = <<".", ".">> THEN [kind |-> "ParentDir", name |-> <<>>]
                 ELSE [kind |-> "Normal", name |-> pieces[i]]
        Kept(c) == c.kind # "-"
    IN  (IF prefixed THEN <<[kind |-> "Prefix", name |-> <<Drive>>]>> ELSE <<>>)
        \o (IF rooted THEN <<[kind |-> "RootDir", name |-> <<>>]>> ELSE <<>>)
        \o SelectSeq([i \in 1..Len(pieces) |-> Of(i)], Kept)

\* variant: a name holding a null byte is pushed like any other
ValidateComponentKeepsNul(components, c) ==
    CASE c.kind = "Normal" -> [ok |-> TRUE, components |-> Append(components, c.name)]
      [] c.kind \in {"CurDir", "RootDir"} -> [ok |-> TRUE, components |-> components]
      [] c.kind = "Prefix" -> [ok |-> FALSE, components |-> components]
      [] OTHER ->
            IF components = <<>> THEN [ok |-> FALSE, components |-> components]
            ELSE [ok |-> TRUE, components |-> SubSeq(components, 1, Len(components) - 1)]

\* validate, one turn of the loop over the components
ValidateComponent(components, c) ==
    CASE c.kind = "Normal" ->
            IF \E i \in DOMAIN c.name : c.name[i] = "nul"
            THEN [ok |-> FALSE, components |-> components]
            ELSE [ok |-> TRUE, components |-> Append(components, c.name)]
      [] c.kind \in {"CurDir", "RootDir"} -> [ok |-> TRUE, components |-> components]
      [] c.kind = "Prefix" -> [ok |-> FALSE, components |-> components]
      [] OTHER ->
            IF components = <<>> THEN [ok |-> FALSE, components |-> components]
            ELSE [ok |-> TRUE, components |-> SubSeq(components, 1, Len(components) - 1)]

\* components.into_iter().collect::<PathBuf>(): the names joined by separators
RECURSIVE Collect(_)
Collect(components) ==
    IF components = <<>> THEN <<>>
    ELSE IF Len(components) = 1 THEN Head(components)
    ELSE Head(components) \o <<"/">> \o Collect(Tail(components))

InvalidPath == [ok |-> FALSE, path |-> <<>>]

RECURSIVE ValidateFrom(_, _)
ValidateFrom(rest, components) ==
    IF rest = <<>>
    THEN IF components = <<>> THEN InvalidPath ELSE [ok |-> TRUE, path |-> Collect(components)]
    ELSE LET r == ValidateComponent(components, Head(rest)) IN
         IF r.ok THEN ValidateFrom(Tail(rest), r.components) ELSE InvalidPath

\* storage::path::validate
Validate(path, windows) == ValidateFrom(Components(path, windows), <<>>)

\* validate(path) called by the caller
CallValidate ==
    /\ mode = "validate" /\ api.op = "-"
    /\ api' = [api EXCEPT !.op = "validate", !.result = Validate(api.path, api.windows)]
    /\ UNCHANGED <<backend, files, versions, dry_run, trash, mode, ctx, call, pc, listing,
                   list_errors, discovery_complete, discovered, not_processing_yet, processing,
                   tasks, events>>

\* the caller validates the path it was given back
CallValidateAgain ==
    /\ mode = "validate" /\ api.op = "validate" /\ api.result.ok
    /\ api' = [api EXCEPT !.op = "revalidate", !.again = Validate(api.result.path, api.windows)]
    /\ UNCHANGED <<backend, files, versions, dry_run, trash, mode, ctx, call, pc, listing,
                   list_errors, discovery_complete, discovered, not_processing_yet, processing,
                   tasks, events>>

\* the caller holds a path string, on either build
ValidateInit ==
    /\ \E p \in PathInputs, windows \in BOOLEAN :
          api = [op |-> "-", path |-> p, windows |-> windows, result |-> InvalidPath,
                 again |-> InvalidPath]
    /\ mode = "validate"
    /\ backend = [p \in Paths |-> NoFile]
    /\ files = [p \in Paths |-> NoRow]
    /\ versions = {}
    /\ dry_run = FALSE
    /\ ctx = NoContext
    /\ pc = "init"
    /\ listing = <<>>
    /\ list_errors = 0
    /\ discovery_complete = FALSE
    /\ discovered = 0
    /\ not_processing_yet = <<>>
    /\ processing = {}
    /\ tasks = [t \in TaskIds |-> IdleTask]
    /\ events = <<>>
    /\ trash = {}
    /\ call = Uncalled

ValidateNext == CallValidate \/ CallValidateAgain

ValidateSpec == ValidateInit /\ [][ValidateNext]_vars

----------------------------------------------------------------------------
(* The read-only decorator: a caller working through ReadOnlyBackend on a  *)
(* wrapped MockBackend.                                                    *)

ReadingOps == {"list_stream", "exists", "read", "read_head", "stat"}
WritingOps == {"write", "delete", "rename"}
\* the byte counts asked of read_head: nothing, less than any file, more
HeadLengths == {0, 2, 9}

NotFound == [ok |-> FALSE, value |-> "NotFound"]
Done(value) == [ok |-> TRUE, value |-> value]

\* MockBackend, the wrapped backend: the answer to an operation and the
\* contents it leaves
MockCall(op, p, to, data, bytes) ==
    CASE op = "list_stream" -> [result |-> Done(ListStream), backend |-> backend]
      [] op = "exists" -> [result |-> Done(BackendExists(p)), backend |-> backend]
      [] op = "read" ->
            [result |-> IF BackendExists(p) THEN Done(backend[p]) ELSE NotFound,
             backend |-> backend]
      [] op = "read_head" ->
            [result |-> IF BackendExists(p)
                        THEN Done([of |-> backend[p], end |-> Min(bytes, Size(backend[p]))])
                        ELSE NotFound,
             backend |-> backend]
      [] op = "stat" ->
            [result |-> IF BackendExists(p) THEN Done(FileInfoOf(p)) ELSE NotFound,
             backend |-> backend]
      [] op = "write" -> [result |-> Done("-"), backend |-> [backend EXCEPT ![p] = data]]
      [] op = "delete" ->
            IF BackendExists(p)
            THEN [result |-> Done("-"), backend |-> [backend EXCEPT ![p] = NoFile]]
            ELSE [result |-> NotFound, backend |-> backend]
      [] OTHER ->
            IF BackendExists(p)
            THEN [result |-> Done("-"),
                  backend |-> [[backend EXCEPT ![p] = NoFile] EXCEPT ![to] = backend[p]]]
            ELSE [result |-> NotFound, backend |-> backend]

\* variant: every operation is handed to the wrapped backend
ReadOnlyCallPassesWrites(op, p, to, data, bytes) == MockCall(op, p, to, data, bytes)

\* ReadOnlyBackend: write, delete and rename log and return Ok(()), the
\* other operations are the wrapped backend's
ReadOnlyCall(op, p, to, data, bytes) ==
    IF op \in WritingOps THEN [result |-> Done("-"), backend |-> backend]
    ELSE MockCall(op, p, to, data, bytes)

\* one operation called on the decorated backend
CallReadOnly(op, p, to, data, bytes) ==
    /\ mode = "read_only"
    /\ backend' = ReadOnlyCall(op, p, to, data, bytes).backend
    /\ api' = [op |-> op, path |-> p, to |-> to, data |-> data, bytes |-> bytes,
               result |-> ReadOnlyCall(op, p, to, data, bytes).result]
    /\ UNCHANGED <<files, versions, dry_run, trash, mode, ctx, call, pc, listing, list_errors,
                   discovery_complete, discovered, not_processing_yet, processing, tasks,
                   events>>

\* ReadOnlyBackend::new(inner) on a backend holding any files at two paths
ReadOnlyInit ==
    /\ \E held \in [FilePaths -> FileBytes \cup {NoFile}] :
          backend = [p \in Paths |-> IF p \in FilePaths THEN held[p] ELSE NoFile]
    /\ files = [p \in Paths |-> NoRow]
    /\ versions = {}
    /\ dry_run = FALSE
    /\ mode = "read_only"
    /\ ctx = NoContext
    /\ InitStream

ReadOnlyNext ==
    \/ CallReadOnly("list_stream", NoPath, NoPath, NoFile, 0)
    \/ \E op \in {"exists", "read", "stat", "delete"}, p \in FilePaths :
          CallReadOnly(op, p, NoPath, NoFile, 0)
    \/ \E p \in FilePaths, bytes \in HeadLengths : CallReadOnly("read_head", p, NoPath, NoFile, bytes)
    \/ \E p \in FilePaths, data \in FileBytes : CallReadOnly("write", p, NoPath, data, 0)
    \/ \E p \in FilePaths, to \in FilePaths : CallReadOnly("rename", p, to, NoFile, 0)

ReadOnlySpec == ReadOnlyInit /\ [][ReadOnlyNext]_vars

----------------------------------------------------------------------------
(* The S3 backend: rename as HeadObject, CopyObject and DeleteObject       *)
(* requests, each of which the service may fail.                           *)

\* the errors a failed request is mapped to
S3Errors == {"Network", "BackendError"}
S3Idle == mode = "s3" /\ api.at \in {"-", "done"}
S3Returned(result) == [api EXCEPT !.at = "done", !.result = result]

\* S3Backend::rename called by the caller: the keys are computed
CallS3Rename(from, to) ==
    /\ S3Idle
    /\ api' = [op |-> "rename", from |-> from, to |-> to, at |-> "head", result |-> "-",
               copied |-> FALSE, failed |-> "-", before |-> backend]
    /\ UNCHANGED <<backend, files, versions, dry_run, trash, mode, ctx, call, pc, listing,
                   list_errors, discovery_complete, discovered, not_processing_yet, processing,
                   tasks, events>>

\* self.exists(from): NotFound when the object is missing, the error of a
\* failed request, or on to the copy
S3RenameHead ==
    /\ mode = "s3" /\ api.at = "head"
    /\ \/ api' = IF BackendExists(api.from) THEN [api EXCEPT !.at = "copy"]
                 ELSE S3Returned("NotFound")
       \/ \E e \in S3Errors : api' = [S3Returned(e) EXCEPT !.failed = "head"]
    /\ UNCHANGED <<backend, files, versions, dry_run, trash, mode, ctx, call, pc, listing,
                   list_errors, discovery_complete, discovered, not_processing_yet, processing,
                   tasks, events>>

\* variant: a failed copy is followed by the delete all the same
S3RenameCopyGoesOn ==
    /\ mode = "s3" /\ api.at = "copy"
    /\ \/ /\ backend' = [backend EXCEPT ![api.to] = backend[api.from]]
          /\ api' = [api EXCEPT !.at = "delete", !.copied = TRUE]
       \/ /\ api' = [api EXCEPT !.at = "delete", !.failed = "copy"]
          /\ UNCHANGED backend
    /\ UNCHANGED <<files, versions, dry_run, trash, mode, ctx, call, pc, listing, list_errors,
                   discovery_complete, discovered, not_processing_yet, processing, tasks,
                   events>>

\* copy_object(from -> to): the object is copied, or the request fails and
\* its error is returned
S3RenameCopy ==
    /\ mode = "s3" /\ api.at = "copy"
    /\ \/ /\ backend' = [backend EXCEPT ![api.to] = backend[api.from]]
          /\ api' = [api EXCEPT !.at = "delete", !.copied = TRUE]
       \/ /\ \E e \in S3Errors : api' = [S3Returned(e) EXCEPT !.failed = "copy"]
          /\ UNCHANGED backend
    /\ UNCHANGED <<files, versions, dry_run, trash, mode, ctx, call, pc, listing, list_errors,
                   discovery_complete, discovered, not_processing_yet, processing, tasks,
                   events>>

\* delete_object(from): the source is deleted, or the request fails, a
\* warning is logged and rename succeeds anyway
S3RenameDelete ==
    /\ mode = "s3" /\ api.at = "delete"
    /\ \/ /\ backend' = [backend EXCEPT ![api.from] = NoFile]
          /\ api' = S3Returned("Ok")
       \/ /\ api' = [S3Returned("Ok") EXCEPT !.failed = "delete"]
          /\ UNCHANGED backend
    /\ UNCHANGED <<files, versions, dry_run, trash, mode, ctx, call, pc, listing, list_errors,
                   discovery_complete, discovered, not_processing_yet, processing, tasks,
                   events>>

\* a bucket holding any objects at two keys
S3Init ==
    /\ \E held \in [FilePaths -> FileBytes \cup {NoFile}] :
          backend = [p \in Paths |-> IF p \in FilePaths THEN held[p] ELSE NoFile]
    /\ api = [op |-> "-", from |-> NoPath, to |-> NoPath, at |-> "-", result |-> "-",
              copied |-> FALSE, failed |-> "-", before |-> backend]
    /\ mode = "s3"
    /\ files = [p \in Paths |-> NoRow]
    /\ versions = {}
    /\ dry_run = FALSE
    /\ ctx = NoContext
    /\ pc = "init"
    /\ listing = <<>>
    /\ list_errors = 0
    /\ discovery_complete = FALSE
    /\ discovered = 0
    /\ not_processing_yet = <<>>
    /\ processing = {}
    /\ tasks = [t \in TaskIds |-> IdleTask]
    /\ events = <<>>
    /\ trash = {}
    /\ call = Uncalled

S3Next ==
    \/ \E from \in FilePaths, to \in FilePaths : CallS3Rename(from, to)
    \/ S3RenameHead
    \/ S3RenameCopy
    \/ S3RenameDelete

S3Spec == S3Init /\ [][S3Next]_vars

----------------------------------------------------------------------------
(* A scan of a library in which every file is a valid document, with the   *)
(* cache empty or as an earlier scan of another state of the library left it. *)

\* the library of the run with its invalid file replaced by a download of work 2
ValidBackend ==
    [p \in Paths |-> IF InitBackend[p].doc = "junk" THEN [comp |-> "bz2", doc |-> "B"]
                     ELSE InitBackend[p]]

ReconcileInit ==
    /\ backend = ValidBackend
    /\ \/ files = [p \in Paths |-> NoRow] /\ versions = {}
       \/ files = FilesAfterScan(OldBackend) /\ versions = VersionsAfterScan(OldBackend)
    /\ mode = "scan"
    /\ ctx = NoContext
    /\ dry_run = FALSE
    /\ InitStream

ReconcileSpec == ReconcileInit /\ [][ScanNext]_vars

----------------------------------------------------------------------------
(* organize_file on a library that has changed since it was scanned: the   *)
(* cache rows describe files whose bytes have been replaced.               *)

\* the copy of A at the place of work 1 replaced by a download of work 2, or
\* by bytes that are no document, with and without a trash backend; and the
\* library as it was scanned
StaleCases ==
    {[scanned |-> Library({At_(1, "bz2", "A"), At_(3, "bz2", "A"), At_(2, "bz2", "B")}),
      library |-> Library({At_(1, "bz2", stored), At_(3, "bz2", "A"), At_(2, "bz2", "B")}),
      ctx |-> [compression |-> "-", trash |-> with_trash]] :
        stored \in {"A", "B", "junk"}, with_trash \in BOOLEAN}

OrganizeStaleInit ==
    /\ \E case \in StaleCases :
          /\ backend = case.library
          /\ files = FilesAfterScan(case.scanned)
          /\ versions = VersionsAfterScan(case.scanned)
          /\ ctx = case.ctx
    /\ dry_run = FALSE
    /\ mode = "organize_file"
    /\ InitStream

OrganizeStaleSpec == OrganizeStaleInit /\ [][OrganizeFileNext]_vars

----------------------------------------------------------------------------
(* An organize stream over a library that holds two downloads of one work, *)
(* both scanned, whose path template gives them the same target path.      *)

\* the downloads A and A2 of work 1 away from their target 1.bz2, which is
\* free or held by a download of work 2; with and without a trash backend
CompetingCases ==
    {Scenario({At_(3, "bz2", "A"), At_(4, "bz2", "A2")}, {}, "-", FALSE),
     Scenario({At_(3, "bz2", "A"), At_(4, "bz2", "A2")}, {}, "-", TRUE),
     Scenario({At_(1, "bz2", "B"), At_(3, "bz2", "A"), At_(4, "bz2", "A2")}, {}, "-", TRUE)}

OrganizeCompetingInit ==
    /\ \E scenario \in CompetingCases :
          /\ backend = scenario.library
          /\ files = FilesAfterScan(scenario.scanned)
          /\ versions = VersionsAfterScan(scenario.scanned)
          /\ ctx = scenario.ctx
    /\ mode = "organize"
    /\ dry_run = FALSE
    /\ InitStream

OrganizeCompetingSpec == OrganizeCompetingInit /\ [][OrganizeNext]_vars

----------------------------------------------------------------------------
(* Fair runs of the streaming scan: the consumer keeps polling, the list   *)
(* stream ends and every per-file future finishes.                         *)

ScanFairInit == Init /\ mode = "scan"
ScanFairSpec == ScanFairInit /\ [][ScanNext]_vars /\ WF_vars(ScanNext)

\* fair runs of the streaming organize: the consumer keeps polling and every
\* per-file future finishes
OrganizeFairInit == Init /\ mode = "organize"
OrganizeFairSpec == OrganizeFairInit /\ [][OrganizeNext]_vars /\ WF_vars(OrganizeNext)

----------------------------------------------------------------------------
(* Properties of the scan event stream.                                    *)

\* the number of file rows in the cache
RowCount == Cardinality({p \in Paths : files[p] # NoRow})

EventIndices == 1..Len(events)
IndicesOf(type) == {i \in EventIndices : events[i].type = type}
\* per-file result items: Scanned, or the error item of one file's scan
IsFileError(e) == e.type = "Error" /\ e.path # NoPath
IsListError(e) == e.type = "Error" /\ e.path = NoPath
IsResult(e) == e.type = "Scanned" \/ IsFileError(e)
ResultIndices == {i \in EventIndices : IsResult(events[i])}

\* C1 as stated: Started, every FileDiscovered, DiscoveryComplete, every
\* Scanned, Complete, in that order; no Scanned before DiscoveryComplete.
Rank(e) == CASE e.type = "Started" -> 0
             [] e.type = "FileDiscovered" -> 1
             [] e.type = "DiscoveryComplete" -> 2
             [] e.type = "Scanned" -> 3
             [] e.type = "Complete" -> 4
             [] OTHER -> -1
C1_StrictPhases ==
    mode = "scan" =>
    \A i, j \in EventIndices :
        (i < j /\ Rank(events[i]) >= 0 /\ Rank(events[j]) >= 0)
            => Rank(events[i]) <= Rank(events[j])

\* C1 amended: Started is first and Complete last; the single DiscoveryComplete
\* follows every FileDiscovered; each Scanned item follows the FileDiscovered
\* of its own file, and may precede DiscoveryComplete.
C1_InterleavedOrder ==
    mode = "scan" =>
    /\ \A i, j \in EventIndices :
          i < j => /\ events[j].type # "Started"
                   /\ events[i].type # "Complete"
                   /\ events[i].type = "DiscoveryComplete"
                         => events[j].type \notin {"FileDiscovered", "DiscoveryComplete"}
    /\ \A j \in IndicesOf("Scanned") :
          \E i \in IndicesOf("FileDiscovered") : i < j /\ events[i].path = events[j].path

\* a completed stream in which a file was scanned while discovery was going on
C1_Witness ==
    /\ mode = "scan" /\ pc = "done"
    /\ \E i \in IndicesOf("Scanned"), j \in IndicesOf("FileDiscovered") : i < j

\* a future nothing has polled yet
Unpolled(t) ==
    IF tasks[t].op = "scan" THEN tasks[t].pc = "lookup"
    ELSE tasks[t].op = "organize" /\ Len(tasks[t].stack) = 1 /\ TopOf(tasks[t]).pc = "exists"

\* C2: in the scan stream and in the organize stream alike, at most
\* MAX_PROCESS_CONCURRENCY per-file futures are in flight at any time: the
\* in-flight set never holds more, a queued future has not been polled, and
\* every future that has started and not returned is in the in-flight set.
C2_BoundedInFlight ==
    /\ Cardinality(processing) <= MAX_PROCESS_CONCURRENCY
    /\ \A i \in 1..Len(not_processing_yet) :
          /\ not_processing_yet[i] \notin processing
          /\ Unpolled(not_processing_yet[i])
    /\ pc = "select" =>
          \A t \in TaskIds :
             (tasks[t].op # "-" /\ ~Unpolled(t) /\ ~TaskDone(t)) => t \in processing

\* an organize pass with the in-flight set full, files waiting, and one of the
\* futures in flight resolving a conflict
C2_Witness ==
    /\ mode = "organize"
    /\ Cardinality(processing) = MAX_PROCESS_CONCURRENCY
    /\ not_processing_yet # <<>>
    /\ \E t \in processing : Len(tasks[t].stack) > 1

\* C3: when Complete is emitted, the result items (Scanned or per-file error)
\* are as many as the FileDiscovered events and as the total of
\* DiscoveryComplete, one per discovered file.
C3_EveryFileOnce ==
    (mode = "scan" /\ pc = "done") =>
        /\ Cardinality(ResultIndices) = Cardinality(IndicesOf("FileDiscovered"))
        /\ \A i \in IndicesOf("DiscoveryComplete") :
              events[i].total = Cardinality(ResultIndices)
        /\ \A i \in IndicesOf("FileDiscovered") :
              Cardinality({j \in ResultIndices : events[j].path = events[i].path}) = 1

\* a completed scan of more files than fit in flight
C3_Witness ==
    /\ mode = "scan" /\ pc = "done"
    /\ Cardinality(ResultIndices) > MAX_PROCESS_CONCURRENCY
    /\ \E i \in ResultIndices : IsFileError(events[i])

\* C4: once an error item (listing failure or per-file failure) is emitted,
\* the stream still goes on to give every discovered file its result item and
\* to emit Complete.
ErrorEmitted == \E i \in EventIndices : events[i].type = "Error"
CompleteWithEveryResult ==
    /\ pc = "done"
    /\ events[Len(events)].type = "Complete"
    /\ \A t \in 1..discovered :
          \E i \in ResultIndices : events[i].path = tasks[t].path
C4_ErrorsDoNotEndStream == ErrorEmitted ~> CompleteWithEveryResult

\* a stream that completed after a listing error and a per-file error, with a
\* file scanned after the first error
C4_Witness ==
    /\ mode = "scan" /\ pc = "done"
    /\ \E i, j, k \in EventIndices :
          /\ IsListError(events[i]) /\ IsFileError(events[j])
          /\ events[k].type = "Scanned" /\ i < k /\ j < k

\* C5: Started is the first item; DiscoveryComplete is emitted at most once,
\* and exactly once and earlier when Complete is emitted; Complete is emitted
\* at most once and nothing follows it.
C5_StartedFirstCompleteLast ==
    mode = "scan" =>
    /\ events # <<>> => events[1].type = "Started"
    /\ Cardinality(IndicesOf("DiscoveryComplete")) <= 1
    /\ Cardinality(IndicesOf("Complete")) <= 1
    /\ \A i \in IndicesOf("Complete") :
          /\ i = Len(events)
          /\ \E j \in IndicesOf("DiscoveryComplete") : j < i

C5_Witness ==
    /\ mode = "scan" /\ pc = "done"
    /\ events[1].type = "Started"
    /\ events[Len(events)].type = "Complete"
    /\ Cardinality(IndicesOf("DiscoveryComplete")) = 1

----------------------------------------------------------------------------
(* Properties of the organize event stream.                                *)

\* per-file result items: Organized, or the error item of one file
OrganizedIndices ==
    {i \in EventIndices : events[i].type = "Organized" \/ IsFileError(events[i])}
ListingFailed == \E i \in EventIndices : IsListError(events[i])
\* the total that DiscoveryComplete carried
Total == events[2].total
\* the futures whose result the stream has taken
Taken ==
    {t \in 1..discovered : TaskDone(t) /\ t \notin processing /\ ~InSeq(t, not_processing_yet)}

\* the items so far are Started, DiscoveryComplete(total), at most total
\* result items, one for each future taken, and Complete after total of them
OrganizeItemsInOrder ==
    (mode = "organize" /\ ~ListingFailed) =>
        /\ IndicesOf("Started") = {1} \cap EventIndices
        /\ IndicesOf("DiscoveryComplete") = {2} \cap EventIndices
        /\ \A i \in EventIndices : i > 2 =>
              i \in OrganizedIndices \/ events[i].type = "Complete"
        /\ Len(events) >= 2 =>
              /\ Cardinality(OrganizedIndices) <= Total
              /\ Cardinality(OrganizedIndices) = Cardinality(Taken)
              /\ \A i \in IndicesOf("Complete") : i = Len(events) /\ i = Total + 3

\* the step that yields DiscoveryComplete
Discovery == mode = "organize" /\ pc = "list" /\ pc' = "select"
DiscoveredTotal == IF events' = <<>> THEN -1 ELSE events'[Len(events')].total

OrganizeCompleted ==
    /\ pc = "done" /\ events[Len(events)].type = "Complete"
    /\ Cardinality(OrganizedIndices) = Total

\* C23: an organize stream whose listing succeeds emits Started, then
\* DiscoveryComplete(total) with total the number of cached files, then
\* exactly total result items (Organized or a per-file error, one per file),
\* then Complete once; a per-file error does not end the stream.
C23_OrganizeStreamCompletes ==
    /\ []OrganizeItemsInOrder
    /\ [][Discovery => DiscoveredTotal = RowCount]_vars
    /\ (mode = "organize" /\ discovery_complete) ~> OrganizeCompleted

\* a completed stream of more files than are organized at once, with a
\* per-file error followed by an Organized item
C23_Witness ==
    /\ mode = "organize" /\ OrganizeCompleted
    /\ Total > MAX_PROCESS_CONCURRENCY
    /\ \E i, j \in OrganizedIndices :
          IsFileError(events[i]) /\ events[j].type = "Organized" /\ i < j

\* the library and the cache are as the pass found them
Untouched ==
    /\ \E scenario \in OrganizeScenarios :
          /\ backend = scenario.library
          /\ files = FilesAfterScan(scenario.scanned)
          /\ versions = VersionsAfterScan(scenario.scanned)
    /\ trash = {}
    /\ \A t \in TaskIds : tasks[t] = IdleTask

\* C24: if listing the cached files fails, the organize stream emits Started,
\* then one error item, and ends: no DiscoveryComplete, no Organized item and
\* no Complete is emitted, and no file is touched.
C24_ListFailureEndsStream ==
    (mode = "organize" /\ ListingFailed) =>
        /\ Len(events) = 2
        /\ events[1].type = "Started" /\ IsListError(events[2])
        /\ IndicesOf("DiscoveryComplete") = {} /\ IndicesOf("Complete") = {}
        /\ OrganizedIndices = {}
        /\ pc = "failed" /\ processing = {}
        /\ Untouched

C24_Witness ==
    /\ mode = "organize" /\ pc = "failed"
    /\ events = <<Event("Started", NoPath, 0, "-"), Event("Error", NoPath, 0, "Cache")>>
    /\ RowCount >= 3 /\ Untouched

----------------------------------------------------------------------------
(* Properties of scan_file.                                                *)

\* C8: a scan_file call that repeats a successful call on the same file, with
\* nothing changed in between, returns effort Cached, reads nothing from the
\* backend and makes no cache write.
C8_RescanIsCached ==
    (tasks[Caller].pc = "done" /\ tasks[Caller].again) =>
        /\ tasks[Caller].err = "-"
        /\ tasks[Caller].effort = "Cached"
        /\ tasks[Caller].reads = 0
        /\ tasks[Caller].upserts = 0
        /\ tasks[Caller].deletes = 0

C8_Witness ==
    /\ tasks[Caller].pc = "done" /\ tasks[Caller].again
    /\ tasks[Caller].effort = "Cached"

\* the file's bytes are no longer those its cache row was written for
Stale(task) == task.old # NoRow /\ task.old.file_hash # Blake3(backend[task.path])

\* C9 as stated: when the bytes have changed since the cache row was written,
\* the result is never the old cached pair: the effort is Recalculated, or
\* Cached obtained through LocatedElsewhere.
C9_ChangedBytesInvalidate ==
    (tasks[Caller].pc = "done" /\ Stale(tasks[Caller])) =>
        /\ tasks[Caller].row # tasks[Caller].old
        /\ \/ tasks[Caller].effort = "Recalculated"
           \/ tasks[Caller].effort = "Cached" /\ tasks[Caller].via = "LocatedElsewhere"

\* C9 amended: when the bytes have changed and the size passed in differs from
\* the cached size, the cached row is invalidated, the old pair is not returned
\* and the result is effort Recalculated, or Cached through LocatedElsewhere,
\* or a scan error for bytes that cannot be decompressed or extracted; when the
\* size is the same, the old cached pair is returned with effort Cached and
\* nothing is read.
C9_ChangedSizeInvalidates ==
    (tasks[Caller].pc = "done" /\ Stale(tasks[Caller])) =>
        IF tasks[Caller].size = tasks[Caller].old.size
        THEN /\ tasks[Caller].effort = "Cached"
             /\ tasks[Caller].row = tasks[Caller].old
             /\ tasks[Caller].reads = 0 /\ tasks[Caller].deletes = 0
        ELSE /\ files[tasks[Caller].path] # tasks[Caller].old
             /\ \/ /\ tasks[Caller].err \in {"Compression", "Extract"}
                   /\ tasks[Caller].deletes = 1
                   /\ files[tasks[Caller].path] = NoRow
                \/ /\ tasks[Caller].err = "-"
                   /\ tasks[Caller].effort = "Recalculated"
                   /\ tasks[Caller].deletes = 1
                   /\ tasks[Caller].row # tasks[Caller].old
                   /\ files[tasks[Caller].path] = tasks[Caller].row
                \/ /\ tasks[Caller].err = "-"
                   /\ tasks[Caller].effort = "Cached"
                   /\ tasks[Caller].via = "LocatedElsewhere"
                   /\ tasks[Caller].row # tasks[Caller].old
                   /\ files[tasks[Caller].path] = tasks[Caller].row

C9_Witness ==
    /\ tasks[Caller].pc = "done" /\ Stale(tasks[Caller])
    /\ tasks[Caller].size # tasks[Caller].old.size
    /\ tasks[Caller].effort = "Recalculated"

\* C10: when no row exists at the file's path but its file hash is that of a
\* cached file at another path, scan_file upserts a row at its path that
\* references the version already stored, does not extract, and returns
\* Cached; the versions stay as many and the file rows grow by one.
AdoptStep == tasks[Caller].pc = "adopt" /\ tasks'[Caller].pc # "adopt"
C10_LocatedElsewhereAdopts ==
    [][AdoptStep =>
          /\ tasks'[Caller].err = "-"
          /\ tasks'[Caller].effort = "Cached"
          /\ tasks'[Caller].extracts = 0
          /\ tasks'[Caller].upserts = 1
          /\ files[tasks[Caller].path] = NoRow
          /\ files'[tasks[Caller].path].file_hash = Blake3(backend[tasks[Caller].path])
          /\ \E q \in Paths \ {tasks[Caller].path} :
                /\ files[q] # NoRow
                /\ files[q].file_hash = files'[tasks[Caller].path].file_hash
                /\ files'[tasks[Caller].path].content_hash = files[q].content_hash
          /\ HasVersion(versions, files'[tasks[Caller].path].content_hash)
          /\ versions' = versions
          /\ RowCount' = RowCount + 1]_vars

C10_Witness ==
    /\ tasks[Caller].pc = "done"
    /\ tasks[Caller].via = "LocatedElsewhere"
    /\ tasks[Caller].effort = "Cached"
    /\ RowCount = 2 /\ Cardinality(versions) = 1

\* the stored bytes decompress as the path's extension says and extract
ValidDocument(task) == Scannable(task.path, backend[task.path])
\* the cache held a row of the size passed in at the file's path
Trusted(task) == task.old # NoRow /\ task.size = task.old.size

\* C11 as stated: scan_file on a valid document performs exactly one cache
\* upsert; on an invalid document it returns a scan error and performs none.
C11_OneUpsertOrError ==
    tasks[Caller].pc = "done" =>
        IF ValidDocument(tasks[Caller])
        THEN tasks[Caller].err = "-" /\ tasks[Caller].upserts = 1
        ELSE tasks[Caller].err # "-" /\ tasks[Caller].upserts = 0

\* C11 amended: when the cache holds a row of the same size at the file's
\* path, scan_file returns it with effort Cached and performs no upsert,
\* whatever the document; otherwise a valid document gets exactly one upsert,
\* and an invalid document whose file hash is not cached under another path
\* gets a Compression or Extract error and no upsert.
C11_OneUpsertUnlessTrusted ==
    tasks[Caller].pc = "done" =>
        IF Trusted(tasks[Caller])
        THEN /\ tasks[Caller].err = "-" /\ tasks[Caller].effort = "Cached"
             /\ tasks[Caller].row = tasks[Caller].old
             /\ tasks[Caller].upserts = 0
        ELSE IF ValidDocument(tasks[Caller])
        THEN /\ tasks[Caller].err = "-" /\ tasks[Caller].upserts = 1
             /\ files[tasks[Caller].path] = tasks[Caller].row
        ELSE tasks[Caller].via # "LocatedElsewhere" =>
                /\ tasks[Caller].err \in {"Compression", "Extract"}
                /\ tasks[Caller].upserts = 0

\* an invalid document was refused, without an upsert, by a scan_file that
\* read it, in a cache where an earlier call had upserted a valid document
C11_Witness ==
    /\ mode = "file" /\ tasks[Caller].pc = "done"
    /\ ~Trusted(tasks[Caller]) /\ ~ValidDocument(tasks[Caller])
    /\ tasks[Caller].err = "Extract" /\ tasks[Caller].upserts = 0
    /\ tasks[Caller].reads = 1
    /\ RowCount >= 1

----------------------------------------------------------------------------
(* Properties of organize_file.  A property speaks of the call the caller  *)
(* made (call.path), of the library as it was when the call was made       *)
(* (call.backend, call.files, call.versions), and of the result.           *)

OrganizeReturned == mode = "organize_file" /\ TaskDone(Caller)
OrganizeResult == tasks[Caller]

\* what the library at the time of the call says of the file at p: the cached
\* pair, or what a scan of its bytes gives
KnownAt(p) ==
    LET r == GetByTargetPath(call.files, call.versions, p) IN
    IF r.found
    THEN [ok |-> TRUE, cached |-> TRUE, compression |-> r.file.compression,
          version |-> r.version]
    ELSE IF Scannable(p, call.backend[p])
    THEN [ok |-> TRUE, cached |-> FALSE, compression |-> CompressionFromPath(p),
          version |-> ScannedVersion(p, call.backend[p]).version]
    ELSE [ok |-> FALSE, cached |-> FALSE, compression |-> "-", version |-> NoVersion]

\* the template-derived path of the file at p
CorrectLocation(p) ==
    Template(KnownAt(p).version,
             IF ctx.compression = "-" THEN KnownAt(p).compression ELSE ctx.compression)

\* the call was made on a stored, valid file
CalledOnFile ==
    /\ call.path # NoPath /\ call.backend[call.path] # NoFile /\ KnownAt(call.path).ok
    /\ CorrectLocation(call.path) \in Paths

\* the file's target path is another path, held by a valid file
Occupied ==
    /\ CalledOnFile
    /\ CorrectLocation(call.path) # call.path
    /\ call.backend[CorrectLocation(call.path)] # NoFile
    /\ KnownAt(CorrectLocation(call.path)).ok

\* ... of a different Version / of the same Version
Competing ==
    Occupied /\ KnownAt(CorrectLocation(call.path)).version.hash # KnownAt(call.path).version.hash
Duplicated ==
    Occupied /\ KnownAt(CorrectLocation(call.path)).version.hash = KnownAt(call.path).version.hash

\* the paths of library b that store document d
StoredIn(b, d) == {p \in Paths : b[p] # NoFile /\ b[p].doc = d}
Incoming == call.backend[call.path]
Occupant == call.backend[CorrectLocation(call.path)]

C13_RowFollowsFile ==
    (OrganizeReturned /\ OrganizeResult.effort = "Renamed") =>
        /\ files[OrganizeResult.to] # NoRow
        /\ files[call.path] = NoRow

\* C14 as stated: when the target path is held by a file of a different
\* Version, at return either the incoming file is gone from the primary
\* backend or the occupying file has been relocated away from the target path.
IncomingGone ==
    /\ ~BackendExists(call.path)
    /\ Cardinality(StoredIn(backend, Incoming.doc))
          < Cardinality(StoredIn(call.backend, Incoming.doc))
OccupantRelocated ==
    /\ backend[CorrectLocation(call.path)] # Occupant
    /\ Cardinality(StoredIn(backend, Occupant.doc))
          = Cardinality(StoredIn(call.backend, Occupant.doc))
OccupantTrashed ==
    /\ backend[CorrectLocation(call.path)] = NoFile
    /\ \E e \in trash : e.data = Occupant
BothUntouched ==
    /\ backend[call.path] = Incoming
    /\ backend[CorrectLocation(call.path)] = Occupant
C15_DepthAtMostFive ==
    mode = "organize_file" =>
        \A i \in 1..Len(tasks[Caller].stack) :
            Len(tasks[Caller].stack[i].depth) <= MAX_CONFLICT_DEPTH

\* A's correct path is held by B and B's correct path is the path of A
MutuallyOccupied == Competing /\ CorrectLocation(CorrectLocation(call.path)) = call.path

\* C16: when the file's correct path is held by a file whose own correct path
\* is held by the first, organize_file fails with Conflict and the backend is
\* as it was: nothing was renamed, written or deleted.
C16_CycleLeavesBoth ==
    (OrganizeReturned /\ MutuallyOccupied) =>
        /\ OrganizeResult.err = "Conflict"
        /\ backend = call.backend
        /\ call.io \cap {"rename", "write", "delete"} = {}

C16_Witness ==
    /\ OrganizeReturned /\ MutuallyOccupied
    /\ OrganizeResult.err = "Conflict"
    /\ "stat" \in call.io
    /\ BothUntouched

\* C17: in the true-collision branch with a trash backend, the step that
\* deletes the incoming file from the primary backend is taken only when the
\* trash holds its bytes, and the call then fails with Conflict; a trash write
\* that fails leaves the backend as it was, the incoming file on it.
\* the incoming file of the handle_conflict call the caller's future is in
IncomingPath == IF tasks[Caller].stack = <<>> THEN NoPath ELSE TopOf(tasks[Caller]).path
IncomingFile == IF tasks[Caller].stack = <<>> THEN NoRow ELSE TopOf(tasks[Caller]).file
TrashDeletion ==
    /\ mode = "organize_file" /\ At(Caller, "conflict", "trash_delete")
    /\ tasks'[Caller] # tasks[Caller]
TrashWriteFailure ==
    /\ mode = "organize_file" /\ At(Caller, "conflict", "trash_write")
    /\ tasks'[Caller] # tasks[Caller] /\ trash' = trash
C17_TrashedBeforeDeleted ==
    /\ [][TrashDeletion =>
            /\ ctx.trash
            /\ IncomingPath \in Paths /\ BackendExists(IncomingPath)
            /\ \E e \in trash : /\ e.data = backend[IncomingPath]
                                /\ e.file_hash = IncomingFile.file_hash
            /\ backend' = [backend EXCEPT ![IncomingPath] = NoFile]
            /\ TaskDone(Caller)' /\ tasks'[Caller].err = "Conflict"]_vars
    /\ [][TrashWriteFailure =>
            /\ backend' = backend
            /\ IncomingPath \in Paths /\ BackendExists(IncomingPath)
            /\ TaskDone(Caller)' /\ tasks'[Caller].err = "Storage"]_vars
    /\ [](mode = "organize_file" =>
            \A p \in Paths :
               (call.path # NoPath /\ call.backend[p] # NoFile /\ backend[p] = NoFile
                   /\ OrganizeResult.err = "Conflict" /\ TaskDone(Caller))
                  => \E e \in trash : e.data = call.backend[p])

\* the incoming file is in the trash and off the primary backend, and the call
\* failed with Conflict
C17_Witness ==
    /\ OrganizeReturned /\ Competing /\ ctx.trash
    /\ OrganizeResult.err = "Conflict"
    /\ ~BackendExists(call.path)
    /\ \E e \in trash : e.data = Incoming
    /\ backend[CorrectLocation(call.path)] = Occupant

\* C18: when the file at the target path has the content hash of the
\* incoming file, the incoming file is deleted, every other file of the
\* backend is left as it was, and organize_file returns CleanedUp(path).
C18_DuplicateDeleted ==
    (OrganizeReturned /\ Duplicated) =>
        /\ OrganizeResult.err = "-"
        /\ OrganizeResult.effort = "CleanedUp"
        /\ OrganizeResult.to = call.path
        /\ backend = [call.backend EXCEPT ![call.path] = NoFile]
        /\ backend[CorrectLocation(call.path)] = Occupant

C18_Witness ==
    /\ OrganizeReturned /\ Duplicated
    /\ OrganizeResult.effort = "CleanedUp"
    /\ ~BackendExists(call.path)
    /\ BackendExists(CorrectLocation(call.path))

\* C19: whenever organize_file returns CleanedUp(p), the cache holds no row at
\* p and the backend holds no file at p.
C19_CleanedUpLeavesNothing ==
    (OrganizeReturned /\ OrganizeResult.effort = "CleanedUp") =>
        /\ files[OrganizeResult.to] = NoRow
        /\ ~BackendExists(OrganizeResult.to)

\* the file is stored at its template-derived path
AlreadyThere == CalledOnFile /\ CorrectLocation(call.path) = call.path

\* C20 as stated: organize_file on a file already at its template-derived path
\* returns AlreadyCorrect and performs no operation at all on the backend.
C20_NoBackendOperation ==
    (OrganizeReturned /\ AlreadyThere) =>
        /\ OrganizeResult.effort = "AlreadyCorrect"
        /\ call.io = {}

\* C20 amended: it returns AlreadyCorrect and leaves the backend as it was; it
\* makes the exists probe and, when the file has a cache row, no other
\* operation on the backend; a file without a cache row is also read, by the
\* scan that caches it.
C20_OnlyProbes ==
    (OrganizeReturned /\ AlreadyThere) =>
        /\ OrganizeResult.err = "-"
        /\ OrganizeResult.effort = "AlreadyCorrect"
        /\ OrganizeResult.to = call.path
        /\ backend = call.backend
        /\ call.io = IF KnownAt(call.path).cached THEN {"exists"} ELSE {"exists", "read"}

\* AlreadyCorrect for a file that had no cache row
C20_Witness ==
    /\ OrganizeReturned /\ AlreadyThere
    /\ ~KnownAt(call.path).cached
    /\ OrganizeResult.effort = "AlreadyCorrect"
    /\ call.io = {"exists", "read"}
    /\ files[call.path] # NoRow

\* the call was made on a stored file that has no cache row
UncachedCall ==
    call.path # NoPath /\ call.backend[call.path] # NoFile /\ call.files[call.path] = NoRow

\* how a scan of the file the call was made on fails, "-" when it does not: a
\* file whose bytes are cached at another path is adopted unread, any other is
\* decompressed and extracted
ScanFailure ==
    LET b == call.backend[call.path]
        d == Decompress(CompressionFromPath(call.path), b)
    IN IF \E q \in Paths : call.files[q] # NoRow /\ call.files[q].file_hash = Blake3(b) THEN "-"
       ELSE IF ~d.ok THEN "Compression"
       ELSE IF ~Extract(d.data).ok THEN "Extract"
       ELSE "-"

DeletedAsCleanedUp ==
    OrganizeResult.effort = "CleanedUp" /\ backend[call.path] = NoFile

\* C21 as stated: organize_file deletes an uncached file, returning CleanedUp,
\* only when its scan fails because it is not a valid document; when the scan
\* fails otherwise the backend is unchanged and a Scan error is returned.
C21_DeletedOnlyIfInvalid ==
    (OrganizeReturned /\ UncachedCall) =>
        /\ DeletedAsCleanedUp => ScanFailure = "Extract"
        /\ ScanFailure \notin {"-", "Extract"} =>
              OrganizeResult.err = "Scan" /\ backend = call.backend

\* C21: organize_file deletes the uncached file it is called on, returning
\* CleanedUp, only when its scan fails because it is not a valid document or
\* when it is scanned and the file at its correct location holds the same
\* Version; when the scan fails otherwise the backend is unchanged and a Scan
\* error is returned.
C21_DeletedOnlyIfInvalidOrDuplicate ==
    (OrganizeReturned /\ UncachedCall) =>
        /\ DeletedAsCleanedUp =>
              \/ ScanFailure = "Extract"
              \/ ScanFailure = "-" /\ Duplicated
        /\ ScanFailure \notin {"-", "Extract"} =>
              OrganizeResult.err = "Scan" /\ backend = call.backend

C21_Witness ==
    /\ OrganizeReturned /\ UncachedCall
    /\ ScanFailure = "Extract" /\ DeletedAsCleanedUp
    /\ backend = [call.backend EXCEPT ![call.path] = NoFile]

\* the call was made on a file whose compression is not the Context's
Transcoded ==
    /\ CalledOnFile
    /\ ctx.compression # "-" /\ KnownAt(call.path).compression # ctx.compression

\* C22: for a file whose target compression differs from its source
\* compression, when organize_file returns Renamed(p) the bytes at p decompress
\* with the target format to what the source file's bytes decompressed to with
\* the source format.
C22_TranscodingPreservesContent ==
    (OrganizeReturned /\ Transcoded /\ OrganizeResult.effort = "Renamed") =>
        LET after == Decompress(ctx.compression, backend[OrganizeResult.to])
            before == Decompress(KnownAt(call.path).compression, Incoming)
        IN /\ BackendExists(OrganizeResult.to)
           /\ before.ok /\ after.ok
           /\ after.data = before.data

C22_Witness ==
    /\ OrganizeReturned /\ Transcoded /\ OrganizeResult.effort = "Renamed"
    /\ Incoming.comp = "bz2" /\ backend[OrganizeResult.to].comp = "gz"
    /\ backend[OrganizeResult.to].doc = Incoming.doc

----------------------------------------------------------------------------
(* The repository under concurrent clients: a scan_file future that may be *)
(* dropped at any await, and the calls organize tasks and the application  *)
(* make on the same connection pool.                                       *)

ApiPaths == FilePaths
\* the FileInfo<Processed> and Version values a client may pass
ApiBytes == {[comp |-> "bz2", doc |-> "A"], [comp |-> "bz2", doc |-> "B"]}
ApiVersions == {Extract([comp |-> "none", doc |-> d]).version : d \in {"A", "B"}}
ApiRows == {[size |-> Size(b), compression |-> b.comp, file_hash |-> Blake3(b),
             content_hash |-> v.hash,
             discovered_at |-> Epoch] :
               b \in ApiBytes, v \in ApiVersions}

Called(op, p, row, version, ok) ==
    api' = [n |-> 1 - api.n, op |-> op, path |-> p, row |-> row, version |-> version,
            ok |-> ok, count |-> 0]

CallUpsert(p, row, version) ==
    LET r == Upsert(files, versions, p, row, version) IN
    /\ files' = r.files
    /\ versions' = r.versions
    /\ Called("upsert", p, row, version, r.ok)
    /\ UNCHANGED <<backend, dry_run, trash, mode, ctx, call, pc, listing, list_errors, discovery_complete,
                   discovered, not_processing_yet, processing, tasks, events>>

CallDeleteByTargetPath(p) ==
    /\ files' = DeleteByTargetPath(files, p)
    /\ Called("delete_by_target_path", p, NoRow, NoVersion, TRUE)
    /\ UNCHANGED <<backend, versions, dry_run, trash, mode, ctx, call, pc, listing, list_errors,
                   discovery_complete, discovered, not_processing_yet, processing, tasks, events>>

CallUpdateTargetPath(old, new) ==
    LET r == UpdateTargetPath(files, old, new) IN
    /\ files' = r.files
    /\ Called("update_target_path", old, NoRow, NoVersion, r.ok)
    /\ UNCHANGED <<backend, versions, dry_run, trash, mode, ctx, call, pc, listing, list_errors,
                   discovery_complete, discovered, not_processing_yet, processing, tasks, events>>

CallDeleteByContentHash(version) ==
    LET r == DeleteByContentHash(files, versions, version.hash) IN
    /\ files' = r.files
    /\ versions' = r.versions
    /\ Called("delete_by_content_hash", NoPath, NoRow, version, TRUE)
    /\ UNCHANGED <<backend, dry_run, trash, mode, ctx, call, pc, listing, list_errors, discovery_complete,
                   discovered, not_processing_yet, processing, tasks, events>>

CallDeleteByWorkId(version) ==
    LET r == DeleteByWorkId(files, versions, version.work_id) IN
    /\ files' = r.files
    /\ versions' = r.versions
    /\ Called("delete_by_work_id", NoPath, NoRow, version, TRUE)
    /\ UNCHANGED <<backend, dry_run, trash, mode, ctx, call, pc, listing, list_errors, discovery_complete,
                   discovered, not_processing_yet, processing, tasks, events>>

CallDeleteOrphanedVersions ==
    /\ versions' = DeleteOrphanedVersions(files, versions).versions
    /\ api' = [n |-> 1 - api.n, op |-> "delete_orphaned_versions", path |-> NoPath,
               row |-> NoRow, version |-> NoVersion, ok |-> TRUE,
               count |-> DeleteOrphanedVersions(files, versions).count]
    /\ UNCHANGED <<backend, files, dry_run, trash, mode, ctx, call, pc, listing, list_errors,
                   discovery_complete, discovered, not_processing_yet, processing, tasks, events>>

\* a scan_file future is created, polled, and dropped by its owner
ClientScan(p) ==
    /\ CallerIdle
    /\ BackendExists(p)
    /\ tasks' = [tasks EXCEPT ![Caller] = NewScanTask(FileInfoOf(p))]
    /\ UNCHANGED <<backend, files, versions, dry_run, trash, mode, ctx, call, api, pc, listing, list_errors,
                   discovery_complete, discovered, not_processing_yet, processing, events>>

ClientStep ==
    /\ \/ ScanLookup(Caller) \/ ScanRead(Caller) \/ ScanExists(Caller)
       \/ ScanDelete(Caller) \/ ScanAdopt(Caller) \/ ScanUpsert(Caller)
    /\ UNCHANGED <<mode, ctx, call, api, pc, listing, list_errors, discovery_complete, discovered,
                   not_processing_yet, processing, events>>

ClientDrop ==
    /\ ~CallerIdle
    /\ tasks' = [tasks EXCEPT ![Caller] = IdleTask]
    /\ UNCHANGED <<backend, files, versions, dry_run, trash, mode, ctx, call, api, pc, listing, list_errors,
                   discovery_complete, discovered, not_processing_yet, processing, events>>

CacheInit ==
    /\ backend = InitBackend
    /\ files = [p \in Paths |-> NoRow]
    /\ versions = {}
    /\ dry_run = FALSE
    /\ mode = "cache"
    /\ ctx = NoContext
    /\ InitStream

CacheNext ==
    \/ \E p \in ApiPaths, row \in ApiRows, v \in ApiVersions : CallUpsert(p, row, v)
    \/ \E p \in ApiPaths : CallDeleteByTargetPath(p)
    \/ \E old \in ApiPaths, new \in ApiPaths : CallUpdateTargetPath(old, new)
    \/ \E v \in ApiVersions : CallDeleteByContentHash(v)
    \/ CallDeleteOrphanedVersions
    \/ \E p \in ApiPaths : ClientScan(p)
    \/ ClientStep
    \/ ClientDrop

CacheSpec == CacheInit /\ [][CacheNext]_vars

----------------------------------------------------------------------------
(* The repository called by one client, created with or without dry_run on *)
(* the database an earlier run left behind.                                *)

RepoDocs == {"A", "A2", "B"}
\* instants within the first second and at the start of the next
RepoInstants == {1, 2}
\* the Version and File values the client may pass: what extract gives for a
\* document at an instant, and the bzip2 file of a document found at an instant
RepoVersion(d, t) == [Extract([comp |-> "none", doc |-> d]).version EXCEPT !.extracted_at = t]
RepoFile(d, t) ==
    [size |-> Size([comp |-> "bz2", doc |-> d]), compression |-> "bz2",
     file_hash |-> Blake3([comp |-> "bz2", doc |-> d]),
     content_hash |-> Blake3([comp |-> "none", doc |-> d]), discovered_at |-> t]
\* work 1 extracted and found twice, the other documents once
RepoVersions == {RepoVersion("A", t) : t \in RepoInstants}
                    \cup {RepoVersion("A2", 1), RepoVersion("B", 2)}
RepoFiles == {RepoFile("A", t) : t \in RepoInstants} \cup {RepoFile("A2", 1), RepoFile("B", 2)}

\* a database with file rows at the two paths and the given version rows
RepoDatabase(first, second, stored) ==
    [files |-> [p \in Paths |->
                   IF p = [name |-> 1, ext |-> "bz2"] THEN first
                   ELSE IF p = [name |-> 2, ext |-> "bz2"] THEN second
                   ELSE NoRow],
     versions |-> stored]
\* what earlier runs left: nothing; two versions of work 1 and an orphaned
\* version of work 2; two copies of work 2 and an orphaned version of work 1
RepoDatabases ==
    {RepoDatabase(NoRow, NoRow, {}),
     RepoDatabase(FileRow(RepoFile("A", 1)), FileRow(RepoFile("A2", 2)),
                  {VersionRow(RepoVersion("A", 1)), VersionRow(RepoVersion("A2", 1)),
                   VersionRow(RepoVersion("B", 2))}),
     RepoDatabase(FileRow(RepoFile("B", 1)), FileRow(RepoFile("B", 2)),
                  {VersionRow(RepoVersion("B", 1)), VersionRow(RepoVersion("A", 2))})}

\* Repository::new(pool, dry_run)
RepositoryInit ==
    /\ backend = [p \in Paths |-> NoFile]
    /\ \E db \in RepoDatabases : files = db.files /\ versions = db.versions
    /\ dry_run \in BOOLEAN
    /\ mode = "repository"
    /\ ctx = NoContext
    /\ InitStream

RepositoryNext ==
    \/ \E p \in ApiPaths, file \in RepoFiles, v \in RepoVersions : CallUpsert(p, file, v)
    \/ \E p \in ApiPaths : CallDeleteByTargetPath(p)
    \/ \E old \in ApiPaths, new \in ApiPaths : CallUpdateTargetPath(old, new)
    \/ \E d \in RepoDocs : CallDeleteByContentHash(RepoVersion(d, 1))
    \/ \E d \in {"A", "B"} : CallDeleteByWorkId(RepoVersion(d, 1))
    \/ CallDeleteOrphanedVersions

RepositorySpec == RepositoryInit /\ [][RepositoryNext]_vars

----------------------------------------------------------------------------
(* Properties of the repository.                                           *)

\* C6: in every reachable cache state, whatever the interleaving of upserts,
\* path updates, deletes and orphan sweeps, and cancelled futures, every file
\* row references a stored version whose hash is the row's content_hash.
C6_ReferentialIntegrity ==
    \A p \in Paths : files[p] # NoRow => HasVersion(versions, files[p].content_hash)

\* a scan adopted a version found elsewhere after the row it was found through,
\* and the version with it, had been deleted
C6_Witness ==
    /\ tasks[Caller].pc = "done" /\ tasks[Caller].err = "-"
    /\ tasks[Caller].via = "LocatedElsewhere"
    /\ api.op = "delete_by_content_hash"
    /\ RowCount = 1 /\ Cardinality(versions) = 1
    /\ files[tasks[Caller].path] = tasks[Caller].row

\* C7: upsert(file, version) with file.content_hash # version.hash fails and
\* writes neither the version row nor the file row.
MismatchedUpsert ==
    /\ api'.n # api.n
    /\ api'.op = "upsert"
    /\ api'.row.content_hash # api'.version.hash
C7_MismatchRejected ==
    [][MismatchedUpsert => (~api'.ok /\ files' = files /\ versions' = versions)]_vars

C7_Witness ==
    /\ api.op = "upsert" /\ api.row.content_hash # api.version.hash /\ ~api.ok
    /\ ~HasVersion(versions, api.version.hash)
    /\ RowCount >= 1

\* a call of one of ops returns in this step
ApiCalled(ops) == api'.n # api.n /\ api'.op \in ops
\* the file row at p references one of the version rows vs
References(fs, p, vs) == fs[p] # NoRow /\ \E v \in vs : v.hash = fs[p].content_hash
DeletedVersions == versions \ versions'
\* the version rows a delete by content hash or by work id is aimed at
Aimed ==
    {v \in versions : IF api'.op = "delete_by_content_hash" THEN v.hash = api'.version.hash
                      ELSE v.work_id = api'.version.work_id}

\* C25: deleting a version, by content hash or by work id, deletes every file
\* row that references it and no file row that references another version.
\* (A dry run deletes no version and no row.)
C25_VersionDeleteCascades ==
    [][ApiCalled({"delete_by_content_hash", "delete_by_work_id"}) =>
          /\ DeletedVersions = IF dry_run THEN {} ELSE Aimed
          /\ versions' \subseteq versions
          /\ \A p \in Paths :
                files'[p] = IF References(files, p, DeletedVersions) THEN NoRow ELSE files[p]]_vars

\* work 1 was deleted: its two versions and their rows are gone, the row of
\* work 2 is still there
C25_Witness ==
    /\ mode = "repository" /\ ~dry_run
    /\ api.op = "delete_by_work_id" /\ api.version.work_id = 1
    /\ RowCount = 1 /\ \A v \in versions : v.work_id = 2
    /\ C6_ReferentialIntegrity

\* C26: deleting file rows never deletes a version; delete_orphaned_versions
\* (on a repository that writes) deletes exactly the versions that no file
\* row references, leaves every other version row and every file row
\* untouched, and returns the number of versions deleted.
C26_OrphansSweptOnRequest ==
    /\ [][ApiCalled({"delete_by_target_path"}) => versions' = versions]_vars
    /\ [][(ApiCalled({"delete_orphaned_versions"}) /\ ~dry_run) =>
             /\ DeletedVersions = {v \in versions : \A p \in Paths : ~References(files, p, {v})}
             /\ versions' \subseteq versions
             /\ files' = files
             /\ api'.ok /\ api'.count = Cardinality(DeletedVersions)]_vars

\* a sweep that deleted one version of two stored, after the rows of the
\* deleted one were deleted
C26_Witness ==
    /\ mode = "repository" /\ ~dry_run
    /\ api.op = "delete_orphaned_versions" /\ api.count = 2
    /\ RowCount = 1 /\ Cardinality(versions) = 1

\* an upsert that passes the constraint, with a version whose hash is stored
UpsertOfStored ==
    /\ ApiCalled({"upsert"}) /\ api'.row.content_hash = api'.version.hash
    /\ HasVersion(versions, api'.version.hash)

\* C27: upsert with a version whose content hash is already stored leaves the
\* stored version row unchanged, every field keeping its first-written value,
\* and writes only the file row keyed by (target, path): no other row changes
\* and the path holds the one row that was passed.
C27_VersionsImmutableByHash ==
    [][UpsertOfStored =>
          /\ versions' = versions
          /\ \A q \in Paths \ {api'.path} : files'[q] = files[q]
          /\ ~dry_run => (api'.ok /\ files'[api'.path] = FileRow(api'.row))]_vars

\* a version extracted a second later than the stored one was upserted with a
\* file that replaced the row at its path
C27_Witness ==
    /\ mode = "repository" /\ ~dry_run
    /\ api.op = "upsert" /\ api.ok
    /\ files[api.path] = FileRow(api.row)
    /\ HasVersion(versions, api.version.hash)
    /\ VersionOf(versions, api.version.hash) # VersionRow(api.version)

\* equal but for the part of an instant below the second
SameSecond(t, u) == t \div 2 = u \div 2
EquivalentFiles(f, g) ==
    /\ SameSecond(f.discovered_at, g.discovered_at)
    /\ [f EXCEPT !.discovered_at = Epoch] = [g EXCEPT !.discovered_at = Epoch]
EquivalentVersions(v, w) ==
    /\ SameSecond(v.extracted_at, w.extracted_at)
    /\ [v EXCEPT !.extracted_at = Epoch] = [w EXCEPT !.extracted_at = Epoch]

\* an upsert on a repository that writes returns Ok
UpsertSucceeded == ApiCalled({"upsert"}) /\ api'.ok /\ ~dry_run
\* what get_by_target_path(file.target, file.path) returns right after it
Retrieved == GetByTargetPath(files', versions', api'.path)

\* C28 as stated: after a successful upsert(file, version), whatever the
\* cache held before, get_by_target_path(file.target, file.path) returns a
\* pair equivalent to (file, version).
C28_RoundTrip ==
    [][UpsertSucceeded =>
          /\ Retrieved.found
          /\ EquivalentFiles(Retrieved.file, api'.row)
          /\ EquivalentVersions(Retrieved.version, api'.version)]_vars

\* C28: after a successful upsert(file, version), get_by_target_path returns
\* a file equivalent to file, with a version equivalent to version when the
\* content hash was not stored before and otherwise the version that was
\* stored under that hash.
C28_RoundTripStoredVersion ==
    [][UpsertSucceeded =>
          /\ Retrieved.found
          /\ EquivalentFiles(Retrieved.file, api'.row)
          /\ Retrieved.version.hash = api'.version.hash
          /\ IF HasVersion(versions, api'.version.hash)
             THEN \E v \in versions :
                     /\ v.hash = api'.version.hash
                     /\ Retrieved.version = [v EXCEPT !.extracted_at = 2 * @]
             ELSE EquivalentVersions(Retrieved.version, api'.version)]_vars

\* the pair retrieved after an upsert: the file to the second, and the
\* version stored a second before the one passed was extracted
C28_Witness ==
    /\ mode = "repository" /\ ~dry_run
    /\ api.op = "upsert" /\ api.ok
    /\ LET r == GetByTargetPath(files, versions, api.path) IN
          /\ r.found /\ r.file # api.row /\ EquivalentFiles(r.file, api.row)
          /\ r.version.hash = api.version.hash
          /\ ~SameSecond(r.version.extracted_at, api.version.extracted_at)

\* a call on a dry-run repository returns in this step
DryRunCall == dry_run /\ api'.n # api.n
Mismatched == api'.op = "upsert" /\ api'.row.content_hash # api'.version.hash

\* C29 as stated: with dry_run set every mutating call, for every input,
\* returns success and leaves the database unchanged.
C29_DryRunAlwaysSucceeds ==
    [][DryRunCall => (api'.ok /\ files' = files /\ versions' = versions)]_vars

\* C29: with dry_run set every mutating call leaves the database unchanged,
\* and returns success for every input but an upsert whose file.content_hash
\* is not version.hash, which fails.
C29_DryRunWritesNothing ==
    [][DryRunCall =>
          /\ files' = files /\ versions' = versions
          /\ api'.ok <=> ~Mismatched]_vars

\* a dry-run upsert that returned Ok on a database whose row at the path is
\* another file's and which does not hold the version
C29_Witness ==
    /\ mode = "repository" /\ dry_run
    /\ api.op = "upsert" /\ api.ok
    /\ files[api.path] # NoRow /\ files[api.path].file_hash # api.row.file_hash
    /\ ~HasVersion(versions, api.version.hash)

----------------------------------------------------------------------------
(* Properties of the version ordering.                                     *)

Reverse(ordering) ==
    CASE ordering = "Less" -> "Greater" [] ordering = "Greater" -> "Less" [] OTHER -> "Equal"

\* the fields of step 2, most significant first
Ranked(v) ==
    <<v.metadata.last_modified, v.metadata.words, v.metadata.chapters_written,
      v.metadata.published>>
\* lexicographic comparison of two ranks
RECURSIVE LexCmp(_, _)
LexCmp(s, t) ==
    IF s = <<>> THEN "Equal"
    ELSE IF Head(s) # Head(t) THEN IntCmp(Head(s), Head(t))
    ELSE LexCmp(Tail(s), Tail(t))

\* a has less than half of b's written chapters and less than a fifth of its length
NoticeOf(a, b) ==
    /\ 2 * a.metadata.chapters_written < b.metadata.chapters_written
    /\ 5 * a.length < b.length

\* C30: Version::cmp is a total order on the versions of one work: cmp(a, b)
\* is the reverse of cmp(b, a), a < b and b < c imply a < c, and the
\* deletion-notice rule takes precedence over last_modified, words, chapters
\* written and published date.
C30_TotalOrder ==
    (mode = "compare" /\ api.op = "cmp") =>
        /\ api.ordering = Reverse(VersionCmp(api.b, api.a))
        /\ \A c \in CmpVersions :
              (api.ordering = "Less" /\ VersionCmp(api.b, c) = "Less") =>
                  VersionCmp(api.a, c) = "Less"
        /\ api.ordering = IF NoticeOf(api.a, api.b) THEN "Less"
                          ELSE IF NoticeOf(api.b, api.a) THEN "Greater"
                          ELSE LexCmp(Ranked(api.a), Ranked(api.b))

----------------------------------------------------------------------------
(* Properties of the lookups by work.                                      *)

\* the stored versions of the work asked for, as the repository returns them
StoredOfWork == {VersionOfRow(v) : v \in {u \in versions : u.work_id = api.work_id}}
\* the file rows that reference the content hash h
ReferencingFiles(h) ==
    {[path |-> p, file |-> FileOfRow(files[p])] :
        p \in {q \in Paths : files[q] # NoRow /\ files[q].content_hash = h}}

\* C31: get_best_for_work_id(w) returns a stored version of work w that no
\* other stored version of w compares greater than, together with exactly
\* the file rows that reference it, and returns nothing only when no version
\* of w is stored.
C31_BestOfWork ==
    (mode = "best" /\ api.op = "get_best_for_work_id") =>
        IF api.result.found
        THEN /\ api.result.version \in StoredOfWork
             /\ \A u \in StoredOfWork : VersionCmp(u, api.result.version) # "Greater"
             /\ api.result.files = ReferencingFiles(api.result.version.hash)
        ELSE StoredOfWork = {}

----------------------------------------------------------------------------
(* Properties of the path validator.                                       *)

Validated == mode = "validate" /\ api.op \in {"validate", "revalidate"} /\ api.result.ok
\* the string starts at the root, or on Windows with a drive
Absolute(p) == p # <<>> /\ Head(p) = "/"
DrivePrefixed(p, windows) == windows /\ p # <<>> /\ Head(p) = Drive

\* C32: every path the validator returns is non-empty and relative, has no
\* ".." or "." component and no null byte, and validating it again returns
\* it unchanged.
C32_ValidatedPathsAreClean ==
    Validated =>
        /\ api.result.path # <<>>
        /\ ~Absolute(api.result.path)
        /\ ~DrivePrefixed(api.result.path, api.windows)
        /\ \A i \in DOMAIN Segments(api.result.path) :
              Segments(api.result.path)[i] \notin {<<".">>, <<".", ".">>}
        /\ \A i \in DOMAIN api.result.path : api.result.path[i] # "nul"
        /\ api.op = "revalidate" => api.again = api.result

\* a path with a leading dot, a doubled separator and a trailing separator
\* was validated twice and came back as its one name
C32_Witness ==
    /\ Validated /\ api.op = "revalidate"
    /\ api.path = <<".", "/", "/", "a", "/">>
    /\ api.result.path = <<"a">>

\* C33: the validator rejects every absolute path and every path with a
\* drive prefix instead of turning it into a relative path.
C33_AbsoluteRejected ==
    (mode = "validate" /\ api.op = "validate"
        /\ (Absolute(api.path) \/ DrivePrefixed(api.path, api.windows))) => ~api.result.ok

----------------------------------------------------------------------------
(* Properties of the read-only decorator.                                  *)

\* the answer the wrapped backend gives to the call just made, asked before it
Wrapped == MockCall(api'.op, api'.path, api'.to, api'.data, api'.bytes).result

\* C34: on a read-only backend write, delete and rename return success and
\* leave the wrapped backend's contents as they were, and exists, read,
\* read_head, stat and list_stream return what the wrapped backend returns.
C34_ReadOnlyShortCircuits ==
    [][mode = "read_only" =>
          /\ backend' = backend
          /\ IF api'.op \in WritingOps THEN api'.result = Done("-")
             ELSE api'.result = Wrapped]_vars

\* a delete of a stored file returned success and the file is still stored
C34_Witness ==
    /\ mode = "read_only" /\ api.op = "delete" /\ api.result.ok
    /\ BackendExists(api.path)

----------------------------------------------------------------------------
(* Properties of the S3 rename.                                            *)

S3Renaming == mode = "s3" /\ api.op = "rename"
SourceGone == api.before[api.from] # NoFile /\ backend[api.from] = NoFile

\* C35: S3 rename deletes the source object only after the copy to the
\* destination succeeded; when the copy fails the source is untouched and an
\* error is returned; when the delete fails after a successful copy, rename
\* returns success and both objects exist.
C35_CopyThenDelete ==
    S3Renaming =>
        /\ SourceGone => api.copied
        /\ (api.copied /\ api.to # api.from) => backend[api.to] = api.before[api.from]
        /\ (api.at = "done" /\ api.failed = "copy") =>
              /\ api.result \in S3Errors
              /\ backend = api.before
        /\ (api.at = "done" /\ api.failed = "delete") =>
              /\ api.result = "Ok"
              /\ backend[api.from] = api.before[api.from]
              /\ backend[api.to] = api.before[api.from]
              /\ BackendExists(api.from)

\* a rename onto another key returned success although its delete failed
C35_Witness ==
    /\ S3Renaming /\ api.at = "done" /\ api.failed = "delete" /\ api.result = "Ok"
    /\ api.to # api.from
    /\ BackendExists(api.from) /\ BackendExists(api.to)

----------------------------------------------------------------------------
(* Properties of the holding queue of the scan stream.                     *)

\* the else branch of the select is taken: discovery is complete and no
\* future is in flight
ElseBranch == mode = "scan" /\ pc = "select" /\ discovery_complete /\ processing = {}

Promotion ==
    /\ mode = "scan" /\ pc = "select"
    /\ Len(not_processing_yet') < Len(not_processing_yet)
    /\ processing' # {}
Promoted == IF Promotion THEN processing' \ processing ELSE {}

\* C39: queued scan futures are promoted to the in-flight set in FIFO order:
\* the one promoted is the one that was queued earliest.
C39_PromotedInFifoOrder ==
    [][Promotion => Promoted = {Head(not_processing_yet)}]_vars

----------------------------------------------------------------------------
(* Properties of a completed scan.                                         *)

\* the scan yielded Complete and no error item before it
CompletedCleanly ==
    /\ mode = "scan" /\ pc = "done"
    /\ \A i \in DOMAIN events : events[i].type # "Error"

\* C40: after a scan of a whole backend completes with no error items, the
\* cache file rows of the backend's target are the files the backend lists: a
\* row for every listed file and no row for a path absent from the backend.
C40_CacheReconciled ==
    CompletedCleanly =>
        {p \in Paths : files[p] # NoRow} = {p \in Paths : BackendExists(p)}

----------------------------------------------------------------------------
(* Properties of organize_file on a stale cache.                           *)

\* the content hash of the bytes library b stores at p, NoHash when they are
\* not a document
StoredContentHash(b, p) ==
    IF Scannable(p, b[p]) THEN ScannedVersion(p, b[p]).version.hash ELSE NoHash

\* the call deleted the valid file it was made on and returned CleanedUp
DeletedAsDuplicate ==
    /\ OrganizeReturned /\ CalledOnFile
    /\ OrganizeResult.err = "-" /\ OrganizeResult.effort = "CleanedUp"
    /\ ~BackendExists(call.path)

\* document d is still stored on the primary backend or in the trash
Kept(d) == StoredIn(backend, d) # {} \/ \E e \in trash : e.data.doc = d

\* C38: conflict resolution deletes the incoming file as a duplicate only if
\* the bytes stored at the target path have the content hash of the incoming
\* file, also when the cache row of the target path is stale; organize_file
\* never deletes the last copy of a valid document.
C38_DuplicateOfStoredBytes ==
    OrganizeReturned =>
        /\ DeletedAsDuplicate =>
              /\ StoredContentHash(call.backend, CorrectLocation(call.path)) # NoHash
              /\ StoredContentHash(call.backend, CorrectLocation(call.path))
                    = StoredContentHash(call.backend, call.path)
        /\ \A d \in ValidDocs : StoredIn(call.backend, d) # {} => Kept(d)

----------------------------------------------------------------------------
(* Properties of the organize stream on competing downloads.               *)

\* the Version the cache keeps of document d
CachedVersion(d) == Extract([comp |-> "none", doc |-> d]).version

\* two documents with different Versions in the cache and one target path
SameTarget(d1, d2) ==
    /\ d1 # d2
    /\ CachedVersion(d1) \in versions /\ CachedVersion(d2) \in versions
    /\ \A c \in {"bz2", "gz"} : Template(CachedVersion(d1), c) = Template(CachedVersion(d2), c)

\* C37: when two cached files of different Versions have the same target
\* path, no interleaving of their organize tasks lets one overwrite the
\* other: after Complete each of the two documents is still stored on the
\* primary backend or in the trash.
C37_CompetingBothKept ==
    (mode = "organize" /\ pc = "done") =>
        \A d1, d2 \in ValidDocs : SameTarget(d1, d2) => Kept(d1) /\ Kept(d2)

====
